---- MODULE Spec2Model ----
(***************************************************************************)
(* Model of the Polymarket BTC consistency scanners:                       *)
(*   projects/polymarket-bot/scan_arbs.py          (Market objects)        *)
(*   projects/polymarket-bot/scripts/scan_arbs.py  (market dicts)          *)
(*                                                                         *)
(* Prices reach the detectors as Python floats obtained from decimal       *)
(* strings (float(prices[0]), float(outcome_prices[i])).  A decimal price  *)
(* is written here in thousandths (550 is 0.55).  A float is the pair      *)
(* <<k, r>> that stands for the exact rational                             *)
(*        (k * 2^W + r) / (Milli * 2^W)                                    *)
(* so k carries the decimal part and r the binary64 representation error.  *)
(* Every binary64 operation of the source (float(), +, -, *, abs, <, >)    *)
(* is an operator below that rounds to 53 significant bits, ties to even.  *)
(***************************************************************************)
EXTENDS Integers, Sequences, FiniteSets, TLC

\* ------------------------------------------------------------------------
\* binary64 arithmetic
\* ------------------------------------------------------------------------

\* thousandths per unit: the decimal grid on which prices are written
Milli == 1000

\* residuals are counted in units of 2^-FracBits / Milli
FracBits == 62

\* significand width of a Python float (IEEE-754 binary64)
MantBits == 52

\* largest binary exponent the scanners' values take (margins stay below 2^7)
MaxExp == 7

Pow2(n) == IF n <= 0 THEN 1 ELSE 2 ^ n

\* 2^n mod Milli for n <= FracBits, without leaving 32-bit integers
Pow2Mod(n) ==
    LET a == n \div 3
        b == (n - a) \div 2
        c == n - a - b
    IN  ((((Pow2(a) % Milli) * (Pow2(b) % Milli)) % Milli) * (Pow2(c) % Milli)) % Milli

FNeg(x) == << -x[1], -x[2] >>

FIsNeg(x) == x[1] < 0 \/ (x[1] = 0 /\ x[2] < 0)

FAbs(x) == IF FIsNeg(x) THEN FNeg(x) ELSE x

\* exact comparisons of two floats (|r| is far below 2^FracBits)
FLt(x, y) == x[1] < y[1] \/ (x[1] = y[1] /\ x[2] < y[2])

FGt(x, y) == FLt(y, x)

FEq(x, y) == x = y

\* x >= 2^e for a positive exact value x = <<k, r>>
GePow2(x, e) ==
    IF e >= 0
    THEN x[1] > Milli * Pow2(e) \/ (x[1] = Milli * Pow2(e) /\ x[2] >= 0)
    ELSE x[1] * Pow2(-e) > Milli \/ (x[1] * Pow2(-e) = Milli /\ x[2] >= 0)

\* binary exponent of a positive exact value with k >= 1
RECURSIVE ExpFrom(_, _)
ExpFrom(x, e) == IF GePow2(x, e) THEN e ELSE ExpFrom(x, e - 1)

\* round a positive exact value to the nearest binary64, ties to even
RoundPos(x) ==
    IF x[1] = 0 THEN x
    ELSE
    LET e  == ExpFrom(x, MaxExp)
        s  == e - MantBits + FracBits
    IN  IF s < 0 THEN x
        ELSE
        LET M    == Pow2(s)
            a    == (x[1] * Pow2Mod(FracBits - s)) % Milli
            t    == (M * a + x[2]) % (Milli * M)
            a2   == (x[1] * Pow2Mod(FracBits - s - 1)) % Milli
            t2   == (2 * M * a2 + x[2]) % (Milli * 2 * M)
            odd  == t2 >= Milli * M
            down == << x[1], x[2] - t >>
            up   == << x[1], x[2] + (Milli * M - t) >>
        IN  IF 2 * t < Milli * M THEN down
            ELSE IF 2 * t > Milli * M THEN up
            ELSE IF odd THEN up ELSE down

Round(x) == IF FIsNeg(x) THEN FNeg(RoundPos(FNeg(x))) ELSE RoundPos(x)

\* float("0.55"): the binary64 nearest to k thousandths
FromMilli(k) == Round(<< k, 0 >>)

FAdd(x, y) == Round(<< x[1] + y[1], x[2] + y[2] >>)

FSub(x, y) == Round(<< x[1] - y[1], x[2] - y[2] >>)

\* x * n for a small integer n
FMulInt(x, n) == Round(<< x[1] * n, x[2] * n >>)

\* the float literals of the two scanners
F_0_005 == FromMilli(5)

F_0_01 == FromMilli(10)

F_0_02 == FromMilli(20)

F_0_05 == FromMilli(50)

F_0_10 == FromMilli(100)

F_0_15 == FromMilli(150)

F_0_5 == FromMilli(500)

F_1_0 == FromMilli(1000)

FZero == << 0, 0 >>

\* ------------------------------------------------------------------------
\* Python values
\* ------------------------------------------------------------------------

\* Optional[...]: None is the empty tuple, a value v is <<v>>
None == << >>

Some(v) == << v >>

IsNone(o) == o = << >>

Val(o) == o[1]

\* F applied to the value of v, which is computed a single time
Once(F(_), v) == CHOOSE r \in {F(x) : x \in {v}} : TRUE

RECURSIVE Concat(_)
Concat(ss) == IF ss = << >> THEN << >> ELSE Head(ss) \o Concat(Tail(ss))

\* list.sort(key=...) on <<key, item>> pairs: ascending on the integer key,
\* stable: x is put behind every pair whose key is <= its own, so equal keys
\* stay in their original order, as Python's sort guarantees
RECURSIVE InsertAsc(_, _)
InsertAsc(x, s) ==
    IF s = << >> THEN << x >>
    ELSE IF x[1] < Head(s)[1] THEN << x >> \o s
    ELSE << Head(s) >> \o InsertAsc(x, Tail(s))

RECURSIVE SortPairsAsc(_, _)
SortPairsAsc(done, rest) ==
    IF rest = << >> THEN done
    ELSE SortPairsAsc(InsertAsc(Head(rest), done), Tail(rest))

SortAsc(s, Key(_)) ==
    LET sorted == SortPairsAsc(<< >>, [i \in 1..Len(s) |-> << Key(s[i]), s[i] >>])
    IN  [i \in 1..Len(s) |-> sorted[i][2]]

\* list.sort(key=..., reverse=True): descending, equal keys keep their order
RECURSIVE InsertDesc(_, _)
InsertDesc(x, s) ==
    IF s = << >> THEN << x >>
    ELSE IF x[1] > Head(s)[1] THEN << x >> \o s
    ELSE << Head(s) >> \o InsertDesc(x, Tail(s))

RECURSIVE SortPairsDesc(_, _)
SortPairsDesc(done, rest) ==
    IF rest = << >> THEN done
    ELSE SortPairsDesc(InsertDesc(Head(rest), done), Tail(rest))

SortDesc(s, Key(_)) ==
    LET sorted == SortPairsDesc(<< >>, [i \in 1..Len(s) |-> << Key(s[i]), s[i] >>])
    IN  [i \in 1..Len(s) |-> sorted[i][2]]

\* the keys of a dict filled by setdefault(key, []).append(m), in insertion
\* order: the distinct elements of ks in order of first appearance
RECURSIVE DictKeysFrom(_, _)
DictKeysFrom(seen, ks) ==
    IF ks = << >> THEN seen
    ELSE IF \E i \in 1..Len(seen) : seen[i] = Head(ks)
         THEN DictKeysFrom(seen, Tail(ks))
         ELSE DictKeysFrom(Append(seen, Head(ks)), Tail(ks))

DictKeys(s, Key(_)) == DictKeysFrom(<< >>, [i \in 1..Len(s) |-> Key(s[i])])

\* ------------------------------------------------------------------------
\* Python strings: a str is the sequence of its characters
\* ------------------------------------------------------------------------

Digits == << "0", "1", "2", "3", "4", "5", "6", "7", "8", "9" >>

Uppers ==
    << "A", "B", "C", "D", "E", "F", "G", "H", "I", "J", "K", "L", "M",
       "N", "O", "P", "Q", "R", "S", "T", "U", "V", "W", "X", "Y", "Z" >>

Lowers ==
    << "a", "b", "c", "d", "e", "f", "g", "h", "i", "j", "k", "l", "m",
       "n", "o", "p", "q", "r", "s", "t", "u", "v", "w", "x", "y", "z" >>

IsDigit(c) == \E i \in 1..10 : Digits[i] = c

IsSpace(c) == c = " "

\* \w
IsWord(c) ==
    \/ IsDigit(c) \/ c = "_"
    \/ \E i \in 1..26 : Uppers[i] = c \/ Lowers[i] = c

DigitVal(c) == (CHOOSE i \in 1..10 : Digits[i] = c) - 1

LowerChar(c) ==
    IF \E i \in 1..26 : Uppers[i] = c
    THEN Lowers[CHOOSE i \in 1..26 : Uppers[i] = c]
    ELSE c

\* str.lower()
Lower(s) == [i \in 1..Len(s) |-> LowerChar(s[i])]

\* s[i:j] with 1-based inclusive bounds, empty when j < i
Slice(s, i, j) == IF j < i THEN << >> ELSE SubSeq(s, i, j)

\* pat occurs in s at position i
MatchAt(s, i, pat) ==
    /\ i >= 1 /\ i + Len(pat) - 1 <= Len(s)
    /\ \A j \in 1..Len(pat) : s[i + j - 1] = pat[j]

\* pat in s
Contains(s, pat) == \E i \in 1..(Len(s) + 1) : MatchAt(s, i, pat)

StartsWith(s, pat) == MatchAt(s, 1, pat)

\* the end of the longest run of characters satisfying P that starts at i:
\* the position of its last character, i - 1 when the run is empty
RECURSIVE DigitRunEnd(_, _)
DigitRunEnd(s, i) ==
    IF i <= Len(s) /\ IsDigit(s[i]) THEN DigitRunEnd(s, i + 1) ELSE i - 1

RECURSIVE WordRunEnd(_, _)
WordRunEnd(s, i) ==
    IF i <= Len(s) /\ IsWord(s[i]) THEN WordRunEnd(s, i + 1) ELSE i - 1

RECURSIVE SpaceRunEnd(_, _)
SpaceRunEnd(s, i) ==
    IF i <= Len(s) /\ IsSpace(s[i]) THEN SpaceRunEnd(s, i + 1) ELSE i - 1

\* str.strip()
RECURSIVE LStrip(_)
LStrip(s) == IF s # << >> /\ IsSpace(Head(s)) THEN LStrip(Tail(s)) ELSE s

RECURSIVE RStrip(_)
RStrip(s) ==
    IF s # << >> /\ IsSpace(s[Len(s)]) THEN RStrip(SubSeq(s, 1, Len(s) - 1)) ELSE s

Strip(s) == RStrip(LStrip(s))

\* int() of a run of digits
RECURSIVE DigitsToInt(_)
DigitsToInt(ds) ==
    IF ds = << >> THEN 0
    ELSE 10 * DigitsToInt(SubSeq(ds, 1, Len(ds) - 1)) + DigitVal(ds[Len(ds)])

\* ------------------------------------------------------------------------
\* scan_arbs.py: parse_deadline
\* ------------------------------------------------------------------------

\* %B and %b of the C locale, lower-cased (strptime ignores case)
FullMonths ==
    << << "j", "a", "n", "u", "a", "r", "y" >>,
       << "f", "e", "b", "r", "u", "a", "r", "y" >>,
       << "m", "a", "r", "c", "h" >>,
       << "a", "p", "r", "i", "l" >>,
       << "m", "a", "y" >>,
       << "j", "u", "n", "e" >>,
       << "j", "u", "l", "y" >>,
       << "a", "u", "g", "u", "s", "t" >>,
       << "s", "e", "p", "t", "e", "m", "b", "e", "r" >>,
       << "o", "c", "t", "o", "b", "e", "r" >>,
       << "n", "o", "v", "e", "m", "b", "e", "r" >>,
       << "d", "e", "c", "e", "m", "b", "e", "r" >> >>

AbbrMonths ==
    << << "j", "a", "n" >>,
       << "f", "e", "b" >>,
       << "m", "a", "r" >>,
       << "a", "p", "r" >>,
       << "m", "a", "y" >>,
       << "j", "u", "n" >>,
       << "j", "u", "l" >>,
       << "a", "u", "g" >>,
       << "s", "e", "p" >>,
       << "o", "c", "t" >>,
       << "n", "o", "v" >>,
       << "d", "e", "c" >> >>

\* the number of the month named by word w in table tbl, 0 when it names none
MonthNo(tbl, w) ==
    IF \E i \in 1..12 : tbl[i] = Lower(w)
    THEN CHOOSE i \in 1..12 : tbl[i] = Lower(w)
    ELSE 0

IsLeap(y) == (y % 4 = 0 /\ y % 100 # 0) \/ y % 400 = 0

DaysIn(y, mo) ==
    IF mo = 2 THEN (IF IsLeap(y) THEN 29 ELSE 28)
    ELSE IF mo \in {4, 6, 9, 11} THEN 30 ELSE 31

\* datetime.date as year * 10000 + month * 100 + day, which orders as dates do
DateOf(y, mo, d) == y * 10000 + mo * 100 + d

\* datetime.strptime(s, "<month> %d, %Y") or "<month> %d %Y": the month
\* name from tbl, white space, a day of one or two digits, the comma or not,
\* white space, a year of four digits, and nothing after it; None stands for
\* the ValueError
Strptime(s, tbl, comma) ==
    LET mEnd  == WordRunEnd(s, 1)
        mo    == MonthNo(tbl, Slice(s, 1, mEnd))
        dBeg  == SpaceRunEnd(s, mEnd + 1) + 1
        dEnd  == DigitRunEnd(s, dBeg)
        dLen  == dEnd - dBeg + 1
        cEnd  == IF comma THEN dEnd + 1 ELSE dEnd
        yBeg  == SpaceRunEnd(s, cEnd + 1) + 1
        yEnd  == DigitRunEnd(s, yBeg)
        y     == DigitsToInt(Slice(s, yBeg, yEnd))
        d     == DigitsToInt(Slice(s, dBeg, dEnd))
    IN  IF /\ mo # 0
           /\ dBeg > mEnd + 1
           /\ dLen \in {1, 2}
           /\ (comma => (cEnd <= Len(s) /\ s[cEnd] = ","))
           /\ yBeg > cEnd + 1
           /\ yEnd - yBeg + 1 = 4
           /\ yEnd = Len(s)
           /\ y >= 1
           /\ d >= 1 /\ d <= DaysIn(y, mo)
        THEN Some(DateOf(y, mo, d))
        ELSE None

\* re.search(r'(\w+)\s+(\d+),?\s+(\d{4})', s) anchored at i: the groups
\* <<word, day digits, year digits>>, or None
FallbackAt(s, i) ==
    LET wEnd == WordRunEnd(s, i)
        dBeg == SpaceRunEnd(s, wEnd + 1) + 1
        dEnd == DigitRunEnd(s, dBeg)
        cEnd == IF dEnd + 1 <= Len(s) /\ s[dEnd + 1] = "," THEN dEnd + 1 ELSE dEnd
        yBeg == SpaceRunEnd(s, cEnd + 1) + 1
        yEnd == DigitRunEnd(s, yBeg)
    IN  IF /\ wEnd >= i
           /\ dBeg > wEnd + 1
           /\ dEnd >= dBeg
           /\ yBeg > cEnd + 1
           /\ yEnd - yBeg + 1 >= 4
        THEN Some(<< Slice(s, i, wEnd), Slice(s, dBeg, dEnd), Slice(s, yBeg, yBeg + 3) >>)
        ELSE None

RECURSIVE FallbackFrom(_, _)
FallbackFrom(s, i) ==
    IF i > Len(s) THEN None
    ELSE IF ~IsNone(FallbackAt(s, i)) THEN FallbackAt(s, i)
    ELSE FallbackFrom(s, i + 1)

parse_deadline(deadline_str) ==
    LET s  == Strip(deadline_str)
        f1 == Strptime(s, FullMonths, TRUE)
        f2 == Strptime(s, FullMonths, FALSE)
        f3 == Strptime(s, AbbrMonths, TRUE)
        m  == FallbackFrom(deadline_str, 1)
    IN  IF ~IsNone(f1) THEN f1
        ELSE IF ~IsNone(f2) THEN f2
        ELSE IF ~IsNone(f3) THEN f3
        ELSE IF ~IsNone(m)
        THEN Strptime(Val(m)[1] \o << " " >> \o Val(m)[2] \o << ",", " " >> \o Val(m)[3],
                      FullMonths, TRUE)
        ELSE None

\* ------------------------------------------------------------------------
\* scan_arbs.py: Market, ArbOpportunity, find_threshold_arbs
\* ------------------------------------------------------------------------

\* a Market as parse_market leaves it; threshold is Optional[float] (an
\* integer number of dollars), deadline the raw text captured after "by"
Market(id, question, event_title, direction, threshold, deadline, yes) ==
    [market_id |-> id, question |-> question, event_title |-> event_title,
     direction |-> direction, threshold |-> threshold, deadline |-> deadline,
     yes_price |-> FromMilli(yes)]

ArbOpportunity(arb_type, a, b, margin, confidence) ==
    [arb_type |-> arb_type, market_a |-> a, market_b |-> b,
     margin |-> margin, confidence |-> confidence]

\* Python truthiness of m.threshold, m.direction, m.deadline
Truthy(m) ==
    /\ ~IsNone(m.threshold) /\ Val(m.threshold) # 0
    /\ m.direction # ""
    /\ m.deadline # << >>

ThresholdKey(m) == << m.direction, m.deadline >>

MarketThreshold(m) == Val(m.threshold)

\* ReachPair with FLAT_PRICING recorded whatever the two thresholds
ReachPairFlatAny(lower, higher) ==
    LET spread == FSub(lower.yes_price, higher.yes_price)
        threshold_gap == Val(higher.threshold) - Val(lower.threshold)
    IN  (IF FGt(higher.yes_price, lower.yes_price)
         THEN << [arb_type |-> "THRESHOLD_INVERSION", market_a |-> lower, market_b |-> higher,
                  margin |-> FMulInt(FSub(higher.yes_price, lower.yes_price), 100),
                  confidence |-> "HIGH"] >>
         ELSE IF FEq(higher.yes_price, lower.yes_price)
         THEN << [arb_type |-> "FLAT_PRICING", market_a |-> lower, market_b |-> higher,
                  margin |-> F_0_5, confidence |-> "LOW"] >>
         ELSE << >>)
        \o
        (IF FLt(FZero, spread) /\ FLt(spread, F_0_01) /\ threshold_gap >= 10000
         THEN << [arb_type |-> "SPREAD_COMPRESSION", market_a |-> lower, market_b |-> higher,
                  margin |-> FMulInt(spread, 100), confidence |-> "MEDIUM"] >>
         ELSE << >>)

\* ReachPair with the spread test weakened to 0 <= spread
ReachPairSpreadFromZero(lower, higher) ==
    LET spread == FSub(lower.yes_price, higher.yes_price)
        threshold_gap == Val(higher.threshold) - Val(lower.threshold)
    IN  (IF FGt(higher.yes_price, lower.yes_price)
         THEN << [arb_type |-> "THRESHOLD_INVERSION", market_a |-> lower, market_b |-> higher,
                  margin |-> FMulInt(FSub(higher.yes_price, lower.yes_price), 100),
                  confidence |-> "HIGH"] >>
         ELSE IF FEq(higher.yes_price, lower.yes_price)
                 /\ Val(lower.threshold) # Val(higher.threshold)
         THEN << [arb_type |-> "FLAT_PRICING", market_a |-> lower, market_b |-> higher,
                  margin |-> F_0_5, confidence |-> "LOW"] >>
         ELSE << >>)
        \o
        (IF ~FLt(spread, FZero) /\ FLt(spread, F_0_01) /\ threshold_gap >= 10000
         THEN << [arb_type |-> "SPREAD_COMPRESSION", market_a |-> lower, market_b |-> higher,
                  margin |-> FMulInt(spread, 100), confidence |-> "MEDIUM"] >>
         ELSE << >>)

\* ReachPair with the inversion test weakened to >=
ReachPairNonStrict(lower, higher) ==
    IF ~FLt(higher.yes_price, lower.yes_price)
    THEN << [arb_type |-> "THRESHOLD_INVERSION", market_a |-> lower, market_b |-> higher,
             margin |-> FMulInt(FSub(higher.yes_price, lower.yes_price), 100),
             confidence |-> "HIGH"] >>
    ELSE << >>

\* ReachPair with the margin taken as easier minus harder
ReachPairSwapped(lower, higher) ==
    IF FGt(higher.yes_price, lower.yes_price)
    THEN << [arb_type |-> "THRESHOLD_INVERSION", market_a |-> lower, market_b |-> higher,
             margin |-> FMulInt(FSub(lower.yes_price, higher.yes_price), 100),
             confidence |-> "HIGH"] >>
    ELSE << >>

\* the findings of the adjacent pair (lower, higher) of a sorted reach group
ReachPair(lower, higher) ==
    LET spread == FSub(lower.yes_price, higher.yes_price)
        threshold_gap == Val(higher.threshold) - Val(lower.threshold)
    IN  (IF FGt(higher.yes_price, lower.yes_price)
         THEN << ArbOpportunity("THRESHOLD_INVERSION", lower, higher,
                    FMulInt(FSub(higher.yes_price, lower.yes_price), 100), "HIGH") >>
         ELSE IF FEq(higher.yes_price, lower.yes_price)
                 /\ Val(lower.threshold) # Val(higher.threshold)
         THEN << ArbOpportunity("FLAT_PRICING", lower, higher, F_0_5, "LOW") >>
         ELSE << >>)
        \o
        (IF FLt(FZero, spread) /\ FLt(spread, F_0_01) /\ threshold_gap >= 10000
         THEN << ArbOpportunity("SPREAD_COMPRESSION", lower, higher,
                    FMulInt(spread, 100), "MEDIUM") >>
         ELSE << >>)

\* the finding of the adjacent pair (higher_dip, lower_dip) of a sorted dip group
DipPair(higher_dip, lower_dip) ==
    IF FGt(lower_dip.yes_price, higher_dip.yes_price)
    THEN << ArbOpportunity("DIP_INVERSION", higher_dip, lower_dip,
               FMulInt(FSub(lower_dip.yes_price, higher_dip.yes_price), 100), "HIGH") >>
    ELSE << >>

\* the group of one (direction, deadline) key, in input order
ThresholdGroup(ms, key) ==
    SelectSeq(ms, LAMBDA m : Truthy(m) /\ ThresholdKey(m) = key)

\* the group as the detector walks it: sorted in place by threshold
SortedGroup(ms, key) ==
    IF key[1] = "reach" THEN SortAsc(ThresholdGroup(ms, key), MarketThreshold)
    ELSE IF key[1] = "dip" THEN SortDesc(ThresholdGroup(ms, key), MarketThreshold)
    ELSE ThresholdGroup(ms, key)

GroupArbs(ms, key) ==
    LET group == SortedGroup(ms, key)
    IN  IF key[1] = "reach"
        THEN Concat([i \in 1..(Len(group) - 1) |-> ReachPair(group[i], group[i + 1])])
        ELSE IF key[1] = "dip"
        THEN Concat([i \in 1..(Len(group) - 1) |-> DipPair(group[i], group[i + 1])])
        ELSE << >>

ThresholdKeys(ms) == DictKeys(SelectSeq(ms, Truthy), ThresholdKey)

find_threshold_arbs(ms) ==
    LET keys == ThresholdKeys(ms)
    IN  Concat([g \in 1..Len(keys) |-> GroupArbs(ms, keys[g])])

\* ------------------------------------------------------------------------
\* scan_arbs.py: find_timeline_arbs
\* ------------------------------------------------------------------------

EventTitleOf(m) == m.event_title

SubKey(m) == << m.direction, Val(m.threshold) >>

HasStrike(m) == ~IsNone(m.threshold) /\ Val(m.threshold) # 0 /\ m.direction # ""

\* event_groups[title]: the markets with an event title and a deadline
EventGroup(ms, title) ==
    SelectSeq(ms, LAMBDA m : m.event_title # "" /\ m.deadline # << >> /\ m.event_title = title)

EventTitles(ms) ==
    DictKeys(SelectSeq(ms, LAMBDA m : m.event_title # "" /\ m.deadline # << >>), EventTitleOf)

DatedKey(x) == x[1]

\* dated: the <<date, market>> pairs of one sub-group whose deadline parses,
\* sorted by date
Dated(sub) ==
    LET parsed == SelectSeq(sub, LAMBDA m : ~IsNone(parse_deadline(m.deadline)))
    IN  SortAsc([i \in 1..Len(parsed) |-> << Val(parse_deadline(parsed[i].deadline)), parsed[i] >>],
                DatedKey)

\* TimelinePair without the skip of a pair on one date
TimelinePairSameDate(earlier, later) ==
    IF FGt(earlier[2].yes_price, later[2].yes_price) /\ FGt(earlier[2].yes_price, FZero)
    THEN << [arb_type |-> "TIMELINE_INVERSION", market_a |-> earlier[2],
             market_b |-> later[2],
             margin |-> FMulInt(FSub(earlier[2].yes_price, later[2].yes_price), 100),
             confidence |-> "HIGH"] >>
    ELSE << >>

TimelinePair(earlier, later) ==
    IF earlier[1] = later[1] THEN << >>
    ELSE IF FGt(earlier[2].yes_price, later[2].yes_price) /\ FGt(earlier[2].yes_price, FZero)
    THEN << ArbOpportunity("TIMELINE_INVERSION", earlier[2], later[2],
               FMulInt(FSub(earlier[2].yes_price, later[2].yes_price), 100), "HIGH") >>
    ELSE << >>

SubGroupArbs(group, key) ==
    LET sub   == SelectSeq(group, LAMBDA m : HasStrike(m) /\ SubKey(m) = key)
        dated == Dated(sub)
    IN  Concat([i \in 1..(Len(dated) - 1) |-> TimelinePair(dated[i], dated[i + 1])])

EventArbs(ms, title) ==
    LET group == EventGroup(ms, title)
        keys  == DictKeys(SelectSeq(group, HasStrike), SubKey)
    IN  IF Len(group) < 2 THEN << >>
        ELSE Concat([k \in 1..Len(keys) |-> SubGroupArbs(group, keys[k])])

find_timeline_arbs(ms) ==
    LET titles == EventTitles(ms)
    IN  Concat([t \in 1..Len(titles) |-> EventArbs(ms, titles[t])])

\* ------------------------------------------------------------------------
\* scan_arbs.py: find_cross_event_arbs
\* ------------------------------------------------------------------------

AllTimeHigh == << "a", "l", "l", " ", "t", "i", "m", "e", " ", "h", "i", "g", "h" >>

\* the band around the all-time high that stands for "new all-time high"
AthBandLow == 105000

AthBandHigh == 115000

DeadlineOf(m) == IF m.deadline # << >> THEN parse_deadline(m.deadline) ELSE None

CrossEventPair(ath, reach) ==
    LET ath_deadline   == DeadlineOf(ath)
        reach_deadline == DeadlineOf(reach)
        diff == FAbs(FSub(ath.yes_price, reach.yes_price))
    IN  IF \/ IsNone(reach.threshold) \/ Val(reach.threshold) = 0
           \/ IsNone(ath_deadline) \/ IsNone(reach_deadline)
        THEN << >>
        ELSE IF /\ ath_deadline = reach_deadline
                /\ AthBandLow <= Val(reach.threshold)
                /\ Val(reach.threshold) <= AthBandHigh
                /\ FGt(diff, F_0_02)
        THEN << ArbOpportunity("CROSS_EVENT", ath, reach, FMulInt(diff, 100), "MEDIUM") >>
        ELSE << >>

find_cross_event_arbs(ms) ==
    LET ath_markets   == SelectSeq(ms, LAMBDA m : Contains(Lower(m.question), AllTimeHigh))
        reach_markets == SelectSeq(ms, LAMBDA m : m.direction = "reach")
    IN  Concat([a \in 1..Len(ath_markets) |->
            Concat([r \in 1..Len(reach_markets) |->
                CrossEventPair(ath_markets[a], reach_markets[r])])])

\* ------------------------------------------------------------------------
\* scripts/scan_arbs.py: extract_strike
\* ------------------------------------------------------------------------

\* the arrows U+2191 and U+2193, each one character of a label
UpArrow == "UP"

DownArrow == "DOWN"

\* [\d,]
IsNumChar(c) == IsDigit(c) \/ c = ","

RECURSIVE NumRunEnd(_, _)
NumRunEnd(s, i) ==
    IF i <= Len(s) /\ IsNumChar(s[i]) THEN NumRunEnd(s, i + 1) ELSE i - 1

\* token.replace(",", "")
StripCommas(tok) == SelectSeq(tok, LAMBDA c : c # ",")

\* the result of extract_strike: strike is None, <<number>> or the tuple
\* <<low, high>>; raised tells that float() raised ValueError instead
StrikeResult(direction, strike) == [direction |-> direction, strike |-> strike, raised |-> FALSE]

StrikeError == [direction |-> "unknown", strike |-> None, raised |-> TRUE]

\* FloatStrike that returns the direction without the number
FloatStrikeUnset(direction, tok) ==
    IF StripCommas(tok) = << >> THEN StrikeError
    ELSE StrikeResult(direction, None)

\* float(tok.replace(",", "")) returned as a strike of the given direction
FloatStrike(direction, tok) ==
    IF StripCommas(tok) = << >> THEN StrikeError
    ELSE StrikeResult(direction, Some(DigitsToInt(StripCommas(tok))))

\* re.search(kw + r'\s*\$?([\d,]+)', q) anchored at i, or with \s+to before
\* the \s* when to is TRUE: the captured token, None when there is no match
KeywordAt(q, i, kw, to) ==
    LET kEnd == i + Len(kw) - 1
        tBeg == SpaceRunEnd(q, kEnd + 1) + 1
        tEnd == IF to THEN tBeg + 1 ELSE kEnd
        sEnd == SpaceRunEnd(q, tEnd + 1)
        dEnd == IF sEnd + 1 <= Len(q) /\ q[sEnd + 1] = "$" THEN sEnd + 1 ELSE sEnd
        nEnd == NumRunEnd(q, dEnd + 1)
    IN  IF /\ MatchAt(q, i, kw)
           /\ (to => (tBeg > kEnd + 1 /\ MatchAt(q, tBeg, << "t", "o" >>)))
        THEN IF nEnd > dEnd THEN Some(Slice(q, dEnd + 1, nEnd)) ELSE None
        ELSE None

RECURSIVE KeywordFrom(_, _, _, _)
KeywordFrom(q, i, kw, to) ==
    IF i > Len(q) THEN None
    ELSE IF ~IsNone(KeywordAt(q, i, kw, to)) THEN KeywordAt(q, i, kw, to)
    ELSE KeywordFrom(q, i + 1, kw, to)

KwAbove == << "a", "b", "o", "v", "e" >>

KwReach == << "r", "e", "a", "c", "h" >>

KwDip == << "d", "i", "p" >>

\* group_title and question are Optional[str]
extract_strike(group_title, question) ==
    LET gt    == IF IsNone(group_title) THEN << >> ELSE Val(group_title)
        qs    == IF IsNone(question) THEN << >> ELSE Val(question)
        text  == Strip(gt)
        isArrow == text # << >> /\ text[1] \in {UpArrow, DownArrow}
        aBeg  == SpaceRunEnd(text, 2) + 1
        aEnd  == NumRunEnd(text, aBeg)
        pEnd  == NumRunEnd(text, 1)
        gEnd  == NumRunEnd(text, 2)
        hEnd  == NumRunEnd(text, pEnd + 2)
        q     == Lower(qs)
        above == KeywordFrom(q, 1, KwAbove, FALSE)
        reach == KeywordFrom(q, 1, KwReach, FALSE)
        dip   == KeywordFrom(q, 1, KwDip, TRUE)
    IN  IF gt = << >> /\ qs = << >> THEN StrikeResult("unknown", None)
        ELSE IF isArrow /\ aEnd >= aBeg
        THEN FloatStrike(IF \E j \in 1..Len(text) : text[j] = UpArrow THEN "above" ELSE "below",
                         Slice(text, aBeg, aEnd))
        ELSE IF pEnd >= 1 /\ pEnd = Len(text)
        THEN FloatStrike("above", text)
        ELSE IF text # << >> /\ text[1] = ">" /\ gEnd >= 2
        THEN FloatStrike("above", Slice(text, 2, gEnd))
        ELSE IF pEnd >= 1 /\ pEnd + 1 <= Len(text) /\ text[pEnd + 1] = "-" /\ hEnd >= pEnd + 2
        THEN IF StripCommas(Slice(text, 1, pEnd)) = << >>
                \/ StripCommas(Slice(text, pEnd + 2, hEnd)) = << >>
             THEN StrikeError
             ELSE StrikeResult("range", << DigitsToInt(StripCommas(Slice(text, 1, pEnd))),
                                           DigitsToInt(StripCommas(Slice(text, pEnd + 2, hEnd))) >>)
        ELSE IF ~IsNone(above) THEN FloatStrike("above", Val(above))
        ELSE IF ~IsNone(reach) THEN FloatStrike("above", Val(reach))
        ELSE IF ~IsNone(dip) THEN FloatStrike("below", Val(dip))
        ELSE StrikeResult("unknown", None)

IsTupleStrike(strike) == Len(strike) = 2

IsNumberStrike(strike) == Len(strike) = 1

\* ------------------------------------------------------------------------
\* scripts/scan_arbs.py: scan_monotonicity
\* ------------------------------------------------------------------------

\* a market dict of the snapshot: group_item_title and question are
\* Optional[str], yes is odds.get("Yes") (Optional[float], given in
\* thousandths), liquidity is Optional[number]; event is None or <<id, title>>
MarketDict(id, group_item_title, question, yes, liquidity, event) ==
    [market_id |-> id, group_item_title |-> group_item_title, question |-> question,
     yes |-> IF IsNone(yes) THEN None ELSE Some(FromMilli(Val(yes))),
     liquidity |-> liquidity, event |-> event]

\* m.get("liquidity", 0) or 0
LiqOf(m) == IF IsNone(m.liquidity) THEN 0 ELSE Val(m.liquidity)

StrikeOf(m) == extract_strike(m.group_item_title, m.question)

\* the result of a scanner: its findings, or raised when an exception left it
Returned(findings) == [raised |-> FALSE, findings |-> findings]

Raised == [raised |-> TRUE, findings |-> << >>]

\* the loop reaches market i only if extract_strike raised for none before it
AnyRaised(ms) == \E i \in 1..Len(ms) : StrikeOf(ms[i]).raised

Entry(m) ==
    [strike |-> Val(StrikeOf(m).strike), yes_odds |-> Val(m.yes),
     market_id |-> m.market_id, liquidity |-> LiqOf(m)]

EntryStrike(e) == e.strike

\* MonoEntries with the liquidity floor made strict: a market at exactly
\* min_liquidity is dropped
MonoEntriesAboveFloor(ms, direction, min_liquidity) ==
    LET kept == SelectSeq(ms, LAMBDA m :
                    /\ IsNumberStrike(StrikeOf(m).strike)
                    /\ ~IsNone(m.yes)
                    /\ LiqOf(m) > min_liquidity
                    /\ StrikeOf(m).direction = direction)
    IN  [i \in 1..Len(kept) |-> Entry(kept[i])]

\* the markets scan_monotonicity keeps, of one direction, as entries
MonoEntries(ms, direction, min_liquidity) ==
    LET kept == SelectSeq(ms, LAMBDA m :
                    /\ IsNumberStrike(StrikeOf(m).strike)
                    /\ ~IsNone(m.yes)
                    /\ LiqOf(m) >= min_liquidity
                    /\ StrikeOf(m).direction = direction)
    IN  [i \in 1..Len(kept) |-> Entry(kept[i])]

MonoSeverity(spread) ==
    IF FGt(spread, F_0_02) THEN "HIGH"
    ELSE IF FGt(spread, F_0_005) THEN "MEDIUM"
    ELSE "LOW"

\* MonoPair with the inversion test weakened to <=
MonoPairNonStrict(a, b, subtype, event_title) ==
    IF ~FGt(a.yes_odds, b.yes_odds)
    THEN << [type |-> "monotonicity_violation", subtype |-> subtype,
             severity |-> "LOW", event |-> event_title,
             spread |-> FSub(b.yes_odds, a.yes_odds),
             market_a |-> a, market_b |-> b] >>
    ELSE << >>

MonoPair(a, b, subtype, event_title) ==
    IF FLt(a.yes_odds, b.yes_odds)
    THEN << [type |-> "monotonicity_violation", subtype |-> subtype,
             severity |-> MonoSeverity(FSub(b.yes_odds, a.yes_odds)),
             event |-> event_title,
             spread |-> FSub(b.yes_odds, a.yes_odds),
             market_a |-> a, market_b |-> b] >>
    ELSE << >>

AboveSorted(ms, min_liquidity) == SortAsc(MonoEntries(ms, "above", min_liquidity), EntryStrike)

BelowSorted(ms, min_liquidity) == SortDesc(MonoEntries(ms, "below", min_liquidity), EntryStrike)

\* the findings of the adjacent pairs of one sorted series
SeriesFindings(sorted, subtype, event_title) ==
    Concat([i \in 1..(Len(sorted) - 1) |->
        MonoPair(sorted[i], sorted[i + 1], subtype, event_title)])

scan_monotonicity(event_markets, event_title, min_liquidity) ==
    IF AnyRaised(event_markets) THEN Raised
    ELSE Returned(
        Once(LAMBDA above_markets : SeriesFindings(above_markets, "above", event_title),
             AboveSorted(event_markets, min_liquidity))
        \o
        Once(LAMBDA below_markets : SeriesFindings(below_markets, "below", event_title),
             BelowSorted(event_markets, min_liquidity)))

\* ------------------------------------------------------------------------
\* scripts/scan_arbs.py: scan_range_sums
\* ------------------------------------------------------------------------

Eligible(m, min_liquidity) == ~IsNone(m.yes) /\ LiqOf(m) >= min_liquidity

\* IsRangeMarket without the test of the direction: every eligible market
\* is taken for a bucket
IsRangeMarketAny(m, min_liquidity) == Eligible(m, min_liquidity)

IsRangeMarket(m, min_liquidity) ==
    /\ Eligible(m, min_liquidity)
    /\ StrikeOf(m).direction = "range" /\ IsTupleStrike(StrikeOf(m).strike)

\* the elif branch: an eligible above market with a number strike
IsAboveNumber(m, min_liquidity) ==
    /\ Eligible(m, min_liquidity)
    /\ StrikeOf(m).direction = "above" /\ IsNumberStrike(StrikeOf(m).strike)

\* gt = m.get("group_item_title", ""); gt.startswith(">") raises
\* AttributeError when the title is None
GtRaises(m, min_liquidity) == IsAboveNumber(m, min_liquidity) /\ IsNone(m.group_item_title)

\* IsOverflow without the test of the ">" prefix: every eligible above
\* market with a label is taken for the overflow bucket
IsOverflowAnyAbove(m, min_liquidity) ==
    /\ IsAboveNumber(m, min_liquidity)
    /\ ~IsNone(m.group_item_title)

IsOverflow(m, min_liquidity) ==
    /\ IsAboveNumber(m, min_liquidity)
    /\ ~IsNone(m.group_item_title)
    /\ StartsWith(Val(m.group_item_title), << ">" >>)

Bucket(m, direction) ==
    [direction |-> direction, strike |-> StrikeOf(m).strike, yes_odds |-> Val(m.yes),
     market_id |-> m.market_id, liquidity |-> LiqOf(m)]

\* overflow_market after the loop: the last ">" market, None when there is none
OverflowMarket(ms, min_liquidity) ==
    LET over == SelectSeq(ms, LAMBDA m : IsOverflow(m, min_liquidity))
    IN  IF over = << >> THEN None ELSE Some(Bucket(over[Len(over)], "overflow"))

\* sum(rm["yes_odds"] for rm in buckets): left to right, from the integer 0,
\* each partial sum rounded (the plain summation of CPython up to 3.11; two
\* addends round the same way under the compensated summation of 3.12)
RECURSIVE SumOdds(_)
SumOdds(buckets) ==
    IF buckets = << >> THEN FZero
    ELSE FAdd(SumOdds(SubSeq(buckets, 1, Len(buckets) - 1)), buckets[Len(buckets)].yes_odds)

RangeFinding(all_buckets, event_title) ==
    LET total == SumOdds(all_buckets)
        off   == FAbs(FSub(total, F_1_0))
    IN  IF FGt(off, F_0_05)
        THEN << [type |-> "range_sum_violation",
                 severity |-> IF FGt(off, F_0_10) THEN "HIGH" ELSE "MEDIUM",
                 event |-> event_title,
                 total |-> total,
                 overshoot |-> FSub(total, F_1_0),
                 buckets |-> all_buckets,
                 action |-> [strategy |-> IF FGt(total, F_1_0) THEN "sell all YES"
                                          ELSE "buy all YES"]] >>
        ELSE << >>

\* range_markets after the loop
RangeMarkets(event_markets, min_liquidity) ==
    LET ranges == SelectSeq(event_markets, LAMBDA m : IsRangeMarket(m, min_liquidity))
    IN  [i \in 1..Len(ranges) |-> Bucket(ranges[i], "range")]

\* all_buckets: the range markets, then the overflow market if there is one
AllBuckets(range_markets, overflow_market) ==
    IF IsNone(overflow_market) THEN range_markets
    ELSE Append(range_markets, Val(overflow_market))

scan_range_sums(event_markets, event_title, min_liquidity) ==
    IF \E i \in 1..Len(event_markets) :
          \/ StrikeOf(event_markets[i]).raised
          \/ GtRaises(event_markets[i], min_liquidity)
    THEN Raised
    ELSE Once(LAMBDA range_markets :
                 IF Len(range_markets) < 2 THEN Returned(<< >>)
                 ELSE Once(LAMBDA all_buckets :
                              Returned(RangeFinding(all_buckets, event_title)),
                           AllBuckets(range_markets,
                                      OverflowMarket(event_markets, min_liquidity))),
              RangeMarkets(event_markets, min_liquidity))

\* ------------------------------------------------------------------------
\* scripts/scan_arbs.py: extract_date_from_event, scan_cross_date
\* ------------------------------------------------------------------------

\* pat, given in lower case, occurs in s at position i, ignoring case
MatchAtNoCase(s, i, pat) ==
    /\ i >= 1 /\ i + Len(pat) - 1 <= Len(s)
    /\ \A j \in 1..Len(pat) : LowerChar(s[i + j - 1]) = pat[j]

\* the length of the month name that starts at s[i], ignoring case; 0 if none
MonthLenAt(s, i) ==
    LET found == {n \in 1..12 : MatchAtNoCase(s, i, FullMonths[n])}
    IN  IF found = {} THEN 0 ELSE Len(FullMonths[CHOOSE n \in found : TRUE])

\* r'on\s+((?:<months>)\s+\d+)' anchored at i: group 1, None if no match
OnDateAt(s, i) ==
    IF ~MatchAtNoCase(s, i, << "o", "n" >>) THEN None
    ELSE
    LET mBeg == SpaceRunEnd(s, i + 2) + 1
        mLen == MonthLenAt(s, mBeg)
        mEnd == mBeg + mLen - 1
        dBeg == SpaceRunEnd(s, mEnd + 1) + 1
        dEnd == DigitRunEnd(s, dBeg)
    IN  IF /\ mBeg > i + 2 /\ mLen > 0
           /\ dBeg > mEnd + 1 /\ dEnd >= dBeg
        THEN Some(Slice(s, mBeg, dEnd))
        ELSE None

\* r'in\s+((?:<months>)(?:\s+\d{4})?)' anchored at i
InDateAt(s, i) ==
    IF ~MatchAtNoCase(s, i, << "i", "n" >>) THEN None
    ELSE
    LET mBeg == SpaceRunEnd(s, i + 2) + 1
        mLen == MonthLenAt(s, mBeg)
        mEnd == mBeg + mLen - 1
        yBeg == SpaceRunEnd(s, mEnd + 1) + 1
        yEnd == DigitRunEnd(s, yBeg)
    IN  IF mBeg > i + 2 /\ mLen > 0
        THEN IF yBeg > mEnd + 1 /\ yEnd - yBeg + 1 >= 4
             THEN Some(Slice(s, mBeg, yBeg + 3))
             ELSE Some(Slice(s, mBeg, mEnd))
        ELSE None

\* r'((?:<months>)\s+\d+-\w+\s+\d+)' anchored at i
SpanDateAt(s, i) ==
    LET mLen == MonthLenAt(s, i)
        mEnd == i + mLen - 1
        dBeg == SpaceRunEnd(s, mEnd + 1) + 1
        dEnd == DigitRunEnd(s, dBeg)
        wEnd == WordRunEnd(s, dEnd + 2)
        eBeg == SpaceRunEnd(s, wEnd + 1) + 1
        eEnd == DigitRunEnd(s, eBeg)
    IN  IF /\ mLen > 0
           /\ dBeg > mEnd + 1 /\ dEnd >= dBeg
           /\ dEnd + 1 <= Len(s) /\ s[dEnd + 1] = "-"
           /\ wEnd >= dEnd + 2
           /\ eBeg > wEnd + 1 /\ eEnd >= eBeg
        THEN Some(Slice(s, i, eEnd))
        ELSE None

\* re.search: the first position, left to right, at which At matches
FirstMatch(s, At(_, _)) ==
    LET hits == {i \in 1..Len(s) : ~IsNone(At(s, i))}
    IN  IF hits = {} THEN None
        ELSE At(s, CHOOSE i \in hits : \A j \in hits : i <= j)

\* event_title is Optional[str]; the result is None or <<date string>>
extract_date_from_event(event_title) ==
    IF IsNone(event_title) \/ Val(event_title) = << >> THEN None
    ELSE LET s  == Val(event_title)
             on == FirstMatch(s, OnDateAt)
             in == FirstMatch(s, InDateAt)
             sp == FirstMatch(s, SpanDateAt)
         IN  IF ~IsNone(on) THEN on
             ELSE IF ~IsNone(in) THEN in
             ELSE IF ~IsNone(sp) THEN sp
             ELSE Some(s)

\* the characters of the model in code point order, for str < str
CodeOrder ==
    << " ", "$", ",", "-" >> \o Digits \o << ">", "?" >> \o Uppers \o << "_" >> \o Lowers
    \o << UpArrow, DownArrow >>

Ord(c) == CHOOSE i \in 1..Len(CodeOrder) : CodeOrder[i] = c

RECURSIVE StrLess(_, _)
StrLess(a, b) ==
    IF b = << >> THEN FALSE
    ELSE IF a = << >> THEN TRUE
    ELSE IF Head(a) = Head(b) THEN StrLess(Tail(a), Tail(b))
    ELSE Ord(Head(a)) < Ord(Head(b))

KwPrice == << "p", "r", "i", "c", "e" >>

\* the date string of an event scan_cross_date looks into, None for the
\* events it passes over: no date string, or a title without above or price
DailyDate(ev) ==
    LET date_str == extract_date_from_event(ev.etitle)
    IN  IF IsNone(date_str) \/ Val(date_str) = << >> THEN None
        ELSE IF \/ Contains(Lower(Val(ev.etitle)), KwAbove)
                \/ Contains(Lower(Val(ev.etitle)), KwPrice)
        THEN date_str
        ELSE None

IsDailyEvent(ev) == ~IsNone(DailyDate(ev))

IsCrossDateMarket(m, min_liquidity) ==
    LET found == StrikeOf(m)
    IN  /\ found.direction = "above"
        /\ IsNumberStrike(found.strike)
        /\ ~IsNone(m.yes) /\ LiqOf(m) >= min_liquidity

CrossEntry(ev, date_str, m) ==
    [strike |-> Val(StrikeOf(m).strike), date |-> date_str,
     event |-> Val(ev.etitle), yes_odds |-> Val(m.yes), market_id |-> m.market_id,
     liquidity |-> LiqOf(m)]

\* every entry the loops append to strike_map, in the order they append it
CrossEntries(all_events, min_liquidity) ==
    Concat([e \in 1..Len(all_events) |->
        LET date_str == DailyDate(all_events[e])
        IN  IF IsNone(date_str) THEN << >>
            ELSE LET kept == SelectSeq(all_events[e].markets,
                                 LAMBDA m : IsCrossDateMarket(m, min_liquidity))
                 IN  [i \in 1..Len(kept) |-> CrossEntry(all_events[e], Val(date_str), kept[i])]])

\* entries.sort(key=lambda x: x["date"]): stable, by string order
RECURSIVE InsertByDate(_, _)
InsertByDate(x, s) ==
    IF s = << >> THEN << x >>
    ELSE IF StrLess(x.date, Head(s).date) THEN << x >> \o s
    ELSE << Head(s) >> \o InsertByDate(x, Tail(s))

RECURSIVE SortByDate(_, _)
SortByDate(done, rest) ==
    IF rest = << >> THEN done
    ELSE SortByDate(InsertByDate(Head(rest), done), Tail(rest))

CrossPair(a, b) ==
    LET spread == FAbs(FSub(a.yes_odds, b.yes_odds))
    IN  IF FGt(spread, F_0_15)
        THEN << [type |-> "cross_date_divergence", severity |-> "INFO",
                 strike |-> a.strike, market_a |-> a, market_b |-> b,
                 spread |-> spread] >>
        ELSE << >>

\* the findings of every pair (i, j), i < j, of the sorted entries of a strike
PairFindings(sorted) ==
    Concat([i \in 1..Len(sorted) |->
        Concat([j \in 1..(Len(sorted) - i) |-> CrossPair(sorted[i], sorted[i + j])])])

StrikeFindings(entries) ==
    IF Len(entries) < 2 THEN << >>
    ELSE Once(PairFindings, SortByDate(<< >>, entries))

\* the findings of strike_map, strike by strike in insertion order
StrikeMapFindings(entries) ==
    LET strikes == DictKeys(entries, EntryStrike)
    IN  Concat([k \in 1..Len(strikes) |->
            StrikeFindings(SelectSeq(entries, LAMBDA x : x.strike = strikes[k]))])

scan_cross_date(all_events, min_liquidity) ==
    IF \E e \in 1..Len(all_events) :
          IsDailyEvent(all_events[e]) /\ AnyRaised(all_events[e].markets)
    THEN Raised
    ELSE Returned(Once(StrikeMapFindings, CrossEntries(all_events, min_liquidity)))

\* ------------------------------------------------------------------------
\* scripts/scan_arbs.py: main
\* ------------------------------------------------------------------------

KwBitcoin == << "b", "i", "t", "c", "o", "i", "n" >>

KwBtc == << "b", "t", "c" >>

\* a market main keeps: it has a question, and the question names bitcoin
IsBtc(m) ==
    /\ ~IsNone(m.question) /\ Val(m.question) # << >>
    /\ (Contains(Lower(Val(m.question)), KwBitcoin) \/ Contains(Lower(Val(m.question)), KwBtc))

\* (eid, etitle): of the event if the market has one, else of the market itself
EventKey(m) ==
    IF ~IsNone(m.event) THEN << Val(m.event)[1], Val(m.event)[2] >>
    ELSE << m.market_id, m.question >>

\* one entry of the events dict
Event(eid, etitle, ms) == [eid |-> eid, etitle |-> etitle, markets |-> ms]

\* the events dict main builds, in insertion order
GroupByEvent(ms) ==
    LET btc  == SelectSeq(ms, IsBtc)
        keys == DictKeys(btc, EventKey)
    IN  [k \in 1..Len(keys) |->
            Event(keys[k][1], keys[k][2], SelectSeq(btc, LAMBDA m : EventKey(m) = keys[k]))]

\* severity_order.get(f.get("severity", "INFO"), 9)
SeverityOrder(severity) ==
    CASE severity = "HIGH" -> 0
      [] severity = "MEDIUM" -> 1
      [] severity = "LOW" -> 2
      [] severity = "INFO" -> 3
      [] OTHER -> 9

\* f.get("spread", 0)
SpreadOf(f) == IF "spread" \in DOMAIN f THEN f.spread ELSE FZero

\* the sort key of a finding is below that of another
KeyLess(f, g) ==
    \/ SeverityOrder(f.severity) < SeverityOrder(g.severity)
    \/ /\ SeverityOrder(f.severity) = SeverityOrder(g.severity)
       /\ FLt(FNeg(SpreadOf(f)), FNeg(SpreadOf(g)))

RECURSIVE InsertRanked(_, _)
InsertRanked(f, s) ==
    IF s = << >> THEN << f >>
    ELSE IF KeyLess(f, Head(s)) THEN << f >> \o s
    ELSE << Head(s) >> \o InsertRanked(f, Tail(s))

RECURSIVE SortRanked(_, _)
SortRanked(done, rest) ==
    IF rest = << >> THEN done
    ELSE SortRanked(InsertRanked(Head(rest), done), Tail(rest))

\* all_findings.sort(key=(severity_order, -spread)): stable
RankFindings(findings) == SortRanked(<< >>, findings)

\* ------------------------------------------------------------------------
\* scan_arbs.py: main, generate_report
\* ------------------------------------------------------------------------

RECURSIVE InsertByMargin(_, _)
InsertByMargin(a, s) ==
    IF s = << >> THEN << a >>
    ELSE IF FGt(a.margin, Head(s).margin) THEN << a >> \o s
    ELSE << Head(s) >> \o InsertByMargin(a, Tail(s))

RECURSIVE SortByMargin(_, _)
SortByMargin(done, rest) ==
    IF rest = << >> THEN done
    ELSE SortByMargin(InsertByMargin(Head(rest), done), Tail(rest))

\* arbs.sort(key=lambda a: a.margin, reverse=True): stable, largest first
RankArbs(found) == SortByMargin(<< >>, found)

\* ------------------------------------------------------------------------
\* scan_arbs.py: parse_market, parse_price
\* ------------------------------------------------------------------------

\* a token handed to float(): ok tells that float() accepts it, milli is its
\* value in thousandths
Token(ok, milli) == [ok |-> ok, milli |-> milli]

\* raw['outcomePrices'] when the key is there: a str (is_str) that
\* json.loads decodes to a list or not (decodes), or the list itself; items
\* are the tokens of the list
OutcomePrices(is_str, decodes, items) ==
    [is_str |-> is_str, decodes |-> decodes, items |-> items]

\* a raw market dict: outcomePrices, volume and liquidity are None when the
\* key is absent; event_title is raw['_event_title']
RawMarket(id, question, outcomePrices, event_title, volume, liquidity) ==
    [id |-> id, question |-> question, outcomePrices |-> outcomePrices,
     event_title |-> event_title, volume |-> volume, liquidity |-> liquidity]

\* the value of a call that may raise
Value(v) == [raised |-> FALSE, value |-> v]

Raise == [raised |-> TRUE, value |-> << >>]

\* parse_price: commas out, lower case, a trailing k times 1000
parse_price(s) ==
    LET t    == Lower(StripCommas(s))
        isK  == t # << >> /\ t[Len(t)] = "k"
        num  == IF isK THEN SubSeq(t, 1, Len(t) - 1) ELSE t
    IN  IF num = << >> \/ \E i \in 1..Len(num) : ~IsDigit(num[i]) THEN Raise
        ELSE Value(IF isK THEN DigitsToInt(num) * 1000 ELSE DigitsToInt(num))

\* r'\s+\$?([\d,]+(?:k)?)' from position j of s, ignoring case: group 1,
\* None if there is no match
PriceTokenAt(s, j) ==
    LET sEnd == SpaceRunEnd(s, j)
        dEnd == IF sEnd + 1 <= Len(s) /\ s[sEnd + 1] = "$" THEN sEnd + 1 ELSE sEnd
        nEnd == NumRunEnd(s, dEnd + 1)
        kEnd == IF nEnd + 1 <= Len(s) /\ LowerChar(s[nEnd + 1]) = "k" THEN nEnd + 1 ELSE nEnd
    IN  IF sEnd >= j /\ nEnd > dEnd THEN Some(Slice(s, dEnd + 1, kEnd)) ELSE None

KwHit == << "h", "i", "t" >>

\* r'(?:reach|hit)\s+\$?([\d,]+(?:k)?)' anchored at i
ReachAt(s, i) ==
    IF MatchAtNoCase(s, i, KwReach) /\ ~IsNone(PriceTokenAt(s, i + 5))
    THEN PriceTokenAt(s, i + 5)
    ELSE IF MatchAtNoCase(s, i, KwHit) THEN PriceTokenAt(s, i + 3)
    ELSE None

\* r'dip\s+to\s+\$?([\d,]+(?:k)?)' anchored at i
DipAt(s, i) ==
    LET tBeg == SpaceRunEnd(s, i + 3) + 1
    IN  IF /\ MatchAtNoCase(s, i, KwDip) /\ tBeg > i + 3
           /\ MatchAtNoCase(s, tBeg, << "t", "o" >>)
        THEN PriceTokenAt(s, tBeg + 2)
        ELSE None

\* [\w\s,]
IsDateChar(c) == IsWord(c) \/ IsSpace(c) \/ c = ","

RECURSIVE DateRunEnd(_, _)
DateRunEnd(s, i) ==
    IF i <= Len(s) /\ IsDateChar(s[i]) THEN DateRunEnd(s, i + 1) ELSE i - 1

\* r'by\s+([\w\s,]+\d{4})' anchored at i, ignoring case: group 1 is the
\* longest stretch after the white space that ends in four digits
ByDateAt(s, i) ==
    IF ~(MatchAtNoCase(s, i, << "b", "y" >>) /\ i + 2 <= Len(s) /\ IsSpace(s[i + 2]))
    THEN None
    ELSE
    LET rEnd == DateRunEnd(s, i + 3)
        ends == {e \in (i + 7)..rEnd : \A d \in (e - 3)..e : IsDigit(s[d])}
    IN  IF ends = {} THEN None
        ELSE Some(Slice(s, i + 3, CHOOSE e \in ends : \A f \in ends : f <= e))

\* json.loads(prices_str) or the list as given: the tokens, or the exception
PricesOf(raw) ==
    IF IsNone(raw.outcomePrices) THEN Value(<< >>)
    ELSE LET p == Val(raw.outcomePrices)
         IN  IF p.is_str /\ ~p.decodes THEN Raise ELSE Value(p.items)

\* float(raw.get(key, 0) or 0) raises
BadNumber(field) == ~IsNone(field) /\ ~Val(field).ok

\* the direction and threshold parse_market reads from the question
ParsedThreshold(q) ==
    LET reach_match == FirstMatch(q, ReachAt)
        dip_match   == FirstMatch(q, DipAt)
    IN  IF ~IsNone(reach_match)
        THEN [direction |-> "reach", price |-> parse_price(Val(reach_match))]
        ELSE IF ~IsNone(dip_match)
        THEN [direction |-> "dip", price |-> parse_price(Val(dip_match))]
        ELSE [direction |-> "", price |-> Value(<< >>)]

\* the deadline parse_market reads from the question, "" when there is none
ParsedDeadline(q) ==
    LET date_match == FirstMatch(q, ByDateAt)
    IN  IF IsNone(date_match) THEN << >> ELSE Strip(Val(date_match))

\* yes_price and no_price of an already resolved market
Resolved(yes, no) ==
    \/ (FEq(yes, FZero) /\ FEq(no, F_1_0))
    \/ (FEq(yes, F_1_0) /\ FEq(no, FZero))

\* parse_market: None, or <<Market>>; every exception gives None
parse_market(raw) ==
    LET prices == PricesOf(raw)
        items  == prices.value
        th     == ParsedThreshold(raw.question)
    IN  IF prices.raised THEN None
        ELSE IF Len(items) < 2 THEN None
        ELSE IF ~items[1].ok \/ ~items[2].ok THEN None
        ELSE IF Resolved(FromMilli(items[1].milli), FromMilli(items[2].milli)) THEN None
        ELSE IF BadNumber(raw.volume) \/ BadNumber(raw.liquidity) THEN None
        ELSE IF th.price.raised THEN None
        ELSE Some(Market(raw.id, raw.question, raw.event_title, th.direction,
                         IF th.direction = "" THEN None ELSE Some(th.price.value),
                         ParsedDeadline(raw.question), items[1].milli))

\* main of scan_arbs.py: the markets parse_market gives, in order
RECURSIVE ParseAll(_)
ParseAll(raws) ==
    IF raws = << >> THEN << >>
    ELSE ParseAll(SubSeq(raws, 1, Len(raws) - 1)) \o parse_market(raws[Len(raws)])

\* the counts main prints after loading and parsing
PrintedCounts(raws, ms) ==
    [raw_markets |-> Len(raws),
     parsed |-> Len(ms),
     with_thresholds |-> Len(SelectSeq(ms, LAMBDA m : ~IsNone(m.threshold)
                                                      /\ Val(m.threshold) # 0)),
     reach |-> Len(SelectSeq(ms, LAMBDA m : m.direction = "reach")),
     dip |-> Len(SelectSeq(ms, LAMBDA m : m.direction = "dip"))]

\* ------------------------------------------------------------------------
\* ops/route.py: the model router
\* ------------------------------------------------------------------------

\* MODELS: the model ids, as strings of characters
MODELS ==
    [local_fast |-> << "o", "l", "l", "a", "m", "a", "/", "q", "w", "e", "n", "3", ":", "8", "b" >>,
     local_primary |-> << "o", "l", "l", "a", "m", "a", "/", "q", "w", "e", "n", "3", ".", "5", ":", "3", "5", "b" >>,
     local_coder |-> << "o", "l", "l", "a", "m", "a", "/", "q", "w", "e", "n", "3", "-", "c", "o", "d", "e", "r", ":", "3", "0", "b" >>,
     cloud_cheap |-> << "a", "n", "t", "h", "r", "o", "p", "i", "c", "/", "c", "l", "a", "u", "d", "e", "-", "h", "a", "i", "k", "u" >>,
     cloud_smart |-> << "a", "n", "t", "h", "r", "o", "p", "i", "c", "/", "c", "l", "a", "u", "d", "e", "-", "s", "o", "n", "n", "e", "t", "-", "4", "-", "2", "0", "2", "5", "0", "5", "1", "4" >>,
     cloud_flash |-> << "g", "o", "o", "g", "l", "e", "/", "g", "e", "m", "i", "n", "i", "-", "2", ".", "5", "-", "f", "l", "a", "s", "h" >>,
     cloud_pro |-> << "g", "o", "o", "g", "l", "e", "/", "g", "e", "m", "i", "n", "i", "-", "2", ".", "5", "-", "p", "r", "o" >>]

LOCAL_CONTEXT_LIMIT == 8192

CHARS_PER_TOKEN == 4

\* the elements of a regular expression: a literal matched ignoring case,
\* \s* or \s+, an optional character out of a class, .* and \b
Lit(text) == [kind |-> "lit", text |-> text, least |-> 0, chars |-> {}]

Spaces(least) == [kind |-> "spaces", text |-> << >>, least |-> least, chars |-> {}]

Opt(chars) == [kind |-> "opt", text |-> << >>, least |-> 0, chars |-> chars]

AnyRun == [kind |-> "any", text |-> << >>, least |-> 0, chars |-> {}]

WordBoundary == [kind |-> "wb", text |-> << >>, least |-> 0, chars |-> {}]

IsWordAt(s, i) == i >= 1 /\ i <= Len(s) /\ IsWord(s[i])

\* the positions at which a match of pat that starts at pos may end (the
\* position after its last character); . matches any character of a prompt
\* of one line
RECURSIVE PatEnds(_, _, _)
PatEnds(s, pos, pat) ==
    IF pat = << >> THEN {pos}
    ELSE LET e == Head(pat)
         IN  IF e.kind = "lit"
             THEN IF MatchAtNoCase(s, pos, e.text)
                  THEN PatEnds(s, pos + Len(e.text), Tail(pat)) ELSE {}
             ELSE IF e.kind = "spaces"
             THEN UNION {PatEnds(s, k, Tail(pat)) :
                            k \in (pos + e.least)..(SpaceRunEnd(s, pos) + 1)}
             ELSE IF e.kind = "opt"
             THEN PatEnds(s, pos, Tail(pat))
                  \cup (IF pos <= Len(s) /\ s[pos] \in e.chars
                        THEN PatEnds(s, pos + 1, Tail(pat)) ELSE {})
             ELSE IF e.kind = "any"
             THEN UNION {PatEnds(s, k, Tail(pat)) : k \in pos..(Len(s) + 1)}
             ELSE IF IsWordAt(s, pos - 1) # IsWordAt(s, pos)
                  THEN PatEnds(s, pos, Tail(pat)) ELSE {}

\* pattern.search(s)
Search(s, pat) == \E i \in 1..(Len(s) + 1) : PatEnds(s, i, pat) # {}

\* the alternatives between the \b of PRIVACY_PATTERNS
PrivacyAlternatives ==
    {<< Lit(<< "p", "r", "i", "v", "a", "t", "e" >>), Spaces(0), Lit(<< "k", "e", "y" >>) >>,
     << Lit(<< "s", "e", "e", "d" >>), Spaces(0), Lit(<< "p", "h", "r", "a", "s", "e" >>) >>,
     << Lit(<< "m", "n", "e", "m", "o", "n", "i", "c" >>) >>,
     << Lit(<< "w", "a", "l", "l", "e", "t" >>), Spaces(0), Lit(<< "s", "e", "c", "r", "e", "t" >>) >>,
     << Lit(<< "s", "s", "n" >>) >>,
     << Lit(<< "s", "o", "c", "i", "a", "l" >>), Spaces(0), Lit(<< "s", "e", "c", "u", "r", "i", "t", "y" >>) >>,
     << Lit(<< "m", "e", "d", "i", "c", "a", "l" >>), Spaces(0), Lit(<< "r", "e", "c", "o", "r", "d" >>) >>,
     << Lit(<< "p", "a", "s", "s", "w", "o", "r", "d" >>) >>,
     << Lit(<< "c", "r", "e", "d", "e", "n", "t", "i", "a", "l" >>) >>,
     << Lit(<< "a", "p", "i" >>), Opt({"_", " "}), Lit(<< "k", "e", "y" >>), Spaces(1), Lit(<< "i", "s" >>) >>,
     << Lit(<< "s", "e", "c", "r", "e", "t" >>), Spaces(1), Lit(<< "t", "o", "k", "e", "n" >>) >>}

PRIVACY_PATTERNS(s) ==
    \E alt \in PrivacyAlternatives : Search(s, << WordBoundary >> \o alt \o << WordBoundary >>)

CodeVerbs ==
    {<< "w", "r", "i", "t", "e" >>, << "f", "i", "x" >>, << "d", "e", "b", "u", "g" >>,
     << "r", "e", "f", "a", "c", "t", "o", "r" >>,
     << "i", "m", "p", "l", "e", "m", "e", "n", "t" >>, << "c", "r", "e", "a", "t", "e" >>}

CodeNouns ==
    {<< "c", "o", "d", "e" >>, << "s", "c", "r", "i", "p", "t" >>,
     << "f", "u", "n", "c", "t", "i", "o", "n" >>, << "c", "l", "a", "s", "s" >>,
     << "m", "o", "d", "u", "l", "e" >>, << "e", "n", "d", "p", "o", "i", "n", "t" >>,
     << "a", "p", "i" >>, << "b", "u", "g" >>, << "e", "r", "r", "o", "r" >>,
     << "t", "e", "s", "t" >>}

CODE_PATTERNS(s) ==
    \E verb \in CodeVerbs, noun \in CodeNouns :
        Search(s, << WordBoundary, Lit(verb), WordBoundary, AnyRun,
                     WordBoundary, Lit(noun), WordBoundary >>)

WebAlternatives ==
    {<< Lit(<< "l", "a", "t", "e", "s", "t" >>) >>,
     << Lit(<< "c", "u", "r", "r", "e", "n", "t" >>) >>,
     << Lit(<< "t", "o", "d", "a", "y" >>) >>,
     << Lit(<< "r", "i", "g", "h", "t" >>), Spaces(1), Lit(<< "n", "o", "w" >>) >>,
     << Lit(<< "l", "i", "v", "e" >>) >>,
     << Lit(<< "r", "e", "a", "l" >>), Opt({"-", " "}), Lit(<< "t", "i", "m", "e" >>) >>,
     << Lit(<< "p", "r", "i", "c", "e" >>), Spaces(1), Lit(<< "o", "f" >>) >>,
     << Lit(<< "w", "h", "a", "t" >>), Spaces(1), Lit(<< "i", "s" >>), Spaces(1), Lit(<< "t", "h", "e" >>), Spaces(1), Lit(<< "p", "r", "i", "c", "e" >>) >>,
     << Lit(<< "t", "r", "e", "n", "d", "i", "n", "g" >>) >>,
     << Lit(<< "n", "e", "w", "s" >>) >>,
     << Lit(<< "s", "e", "a", "r", "c", "h" >>), Spaces(1), Lit(<< "f", "o", "r" >>) >>,
     << Lit(<< "l", "o", "o", "k" >>), Spaces(1), Lit(<< "u", "p" >>) >>,
     << Lit(<< "f", "i", "n", "d" >>), Spaces(1), Lit(<< "o", "n", "l", "i", "n", "e" >>) >>}

WEB_PATTERNS(s) ==
    \E alt \in WebAlternatives : Search(s, << WordBoundary >> \o alt \o << WordBoundary >>)

\* SIMPLE_QUESTION.match(stripped): one to fifty characters, then a final ?
SIMPLE_QUESTION(s) == Len(s) >= 2 /\ Len(s) <= 51 /\ s[Len(s)] = "?"

\* tier0_route: the model id, None when no pattern decides
tier0_route(prompt_text, tokens) ==
    IF PRIVACY_PATTERNS(prompt_text) THEN Some(MODELS.local_primary)
    ELSE IF tokens > LOCAL_CONTEXT_LIMIT THEN Some(MODELS.cloud_flash)
    ELSE IF CODE_PATTERNS(prompt_text) THEN Some(MODELS.local_coder)
    ELSE IF WEB_PATTERNS(prompt_text) THEN Some(MODELS.cloud_cheap)
    ELSE IF SIMPLE_QUESTION(Strip(prompt_text)) /\ tokens < 100 THEN Some(MODELS.local_fast)
    ELSE None

\* score_dimensions: the term lists
complexity_markers ==
    {<< "a", "n", "a", "l", "y", "z", "e" >>, << "c", "o", "m", "p", "a", "r", "e" >>,
     << "e", "v", "a", "l", "u", "a", "t", "e" >>,
     << "a", "r", "c", "h", "i", "t", "e", "c", "t" >>, << "d", "e", "s", "i", "g", "n" >>,
     << "o", "p", "t", "i", "m", "i", "z", "e" >>,
     << "t", "r", "a", "d", "e", "-", "o", "f", "f" >>,
     << "p", "r", "o", "s", " ", "a", "n", "d", " ", "c", "o", "n", "s" >>,
     << "s", "t", "r", "a", "t", "e", "g", "y" >>, << "p", "l", "a", "n" >>,
     << "r", "e", "v", "i", "e", "w" >>, << "a", "s", "s", "e", "s", "s" >>,
     << "s", "y", "n", "t", "h", "e", "s", "i", "z", "e" >>,
     << "r", "e", "a", "s", "o", "n", "i", "n", "g" >>}

\* the terms counted for the privacy score
privacy_terms ==
    {<< "p", "r", "i", "v", "a", "t", "e" >>, << "s", "e", "c", "r", "e", "t" >>,
     << "w", "a", "l", "l", "e", "t" >>, << "s", "e", "e", "d" >>,
     << "p", "a", "s", "s", "w", "o", "r", "d" >>,
     << "c", "r", "e", "d", "e", "n", "t", "i", "a", "l" >>,
     << "m", "e", "d", "i", "c", "a", "l" >>, << "h", "e", "a", "l", "t", "h" >>,
     << "s", "s", "n" >>, << "p", "e", "r", "s", "o", "n", "a", "l" >>,
     << "c", "o", "n", "f", "i", "d", "e", "n", "t", "i", "a", "l" >>,
     << "s", "e", "n", "s", "i", "t", "i", "v", "e" >>,
     << "f", "i", "n", "a", "n", "c", "i", "a", "l" >>, << "b", "a", "n", "k" >>}

\* the terms counted for the web score
web_terms ==
    {<< "l", "a", "t", "e", "s", "t" >>, << "c", "u", "r", "r", "e", "n", "t" >>,
     << "t", "o", "d", "a", "y" >>, << "p", "r", "i", "c", "e" >>,
     << "n", "e", "w", "s" >>, << "t", "r", "e", "n", "d", "i", "n", "g" >>,
     << "l", "i", "v", "e" >>, << "r", "e", "a", "l", "-", "t", "i", "m", "e" >>,
     << "s", "e", "a", "r", "c", "h" >>, << "l", "o", "o", "k", " ", "u", "p" >>,
     << "f", "i", "n", "d", " ", "o", "n", "l", "i", "n", "e" >>,
     << "w", "h", "a", "t", " ", "h", "a", "p", "p", "e", "n", "e", "d" >>}

\* the terms counted for the code score
code_terms ==
    {<< "c", "o", "d", "e" >>, << "s", "c", "r", "i", "p", "t" >>,
     << "f", "u", "n", "c", "t", "i", "o", "n" >>, << "c", "l", "a", "s", "s" >>,
     << "b", "u", "g" >>, << "e", "r", "r", "o", "r" >>, << "d", "e", "b", "u", "g" >>,
     << "r", "e", "f", "a", "c", "t", "o", "r" >>,
     << "i", "m", "p", "l", "e", "m", "e", "n", "t" >>, << "t", "e", "s", "t" >>,
     << "c", "o", "m", "p", "i", "l", "e" >>, << "s", "y", "n", "t", "a", "x" >>,
     << "r", "u", "n", "t", "i", "m", "e" >>,
     << "e", "x", "c", "e", "p", "t", "i", "o", "n" >>, << "a", "p", "i" >>,
     << "e", "n", "d", "p", "o", "i", "n", "t" >>,
     << "d", "a", "t", "a", "b", "a", "s", "e" >>, << "q", "u", "e", "r", "y" >>,
     << "m", "i", "g", "r", "a", "t", "i", "o", "n" >>}

\* sum(1 for t in terms if t in lower)
Hits(lower, terms) == Cardinality({t \in terms : Contains(lower, t)})

Min(a, b) == IF a < b THEN a ELSE b

\* len(prompt.split())
WordCount(s) ==
    Cardinality({i \in 1..Len(s) : ~IsSpace(s[i]) /\ (i = 1 \/ IsSpace(s[i - 1]))})

IsStop(c) == c \in {".", "!", "?"}

\* len(re.findall(r"[.!?]+", prompt))
SentenceCount(s) ==
    Cardinality({i \in 1..Len(s) : IsStop(s[i]) /\ (i = 1 \/ ~IsStop(s[i - 1]))})

ComplexityScore(prompt_text) ==
    LET base == Min(10, Hits(Lower(prompt_text), complexity_markers) * 3
                        + (IF WordCount(prompt_text) > 100 THEN 1 ELSE 0) * 2)
    IN  IF SentenceCount(prompt_text) > 5 THEN Min(10, base + 2) ELSE base

TokenVolumeScore(tokens) ==
    IF tokens > 100000 THEN 10
    ELSE IF tokens > 50000 THEN 9
    ELSE IF tokens > 16000 THEN 8
    ELSE IF tokens > 8000 THEN 7
    ELSE IF tokens > 4000 THEN 5
    ELSE IF tokens > 1000 THEN 3
    ELSE 1

score_dimensions(prompt_text, tokens) ==
    [complexity |-> ComplexityScore(prompt_text),
     token_volume |-> TokenVolumeScore(tokens),
     privacy |-> Min(10, Hits(Lower(prompt_text), privacy_terms) * 3),
     web_needed |-> Min(10, Hits(Lower(prompt_text), web_terms) * 3),
     code_task |-> Min(10, Hits(Lower(prompt_text), code_terms) * 2)]

\* tier1_route: the model id and the confidence, in hundredths
tier1_route(s) ==
    IF s.privacy >= 7 THEN << MODELS.local_primary, 95 >>
    ELSE IF s.token_volume >= 8
    THEN IF s.token_volume >= 9 THEN << MODELS.cloud_flash, 90 >>
         ELSE << MODELS.cloud_flash, 80 >>
    ELSE IF s.web_needed >= 5 THEN << MODELS.cloud_cheap, 85 >>
    ELSE IF s.code_task >= 5 THEN << MODELS.local_coder, 80 >>
    ELSE IF s.complexity >= 7 /\ s.token_volume <= 5 THEN << MODELS.local_primary, 75 >>
    ELSE IF s.complexity <= 3 /\ s.token_volume <= 3 THEN << MODELS.local_fast, 70 >>
    ELSE << MODELS.local_primary, 55 >>

\* the values of CATEGORY_TO_MODEL
CATEGORY_TO_MODEL ==
    [SIMPLE |-> MODELS.local_fast, CODE |-> MODELS.local_coder,
     ANALYSIS |-> MODELS.local_primary, SEARCH |-> MODELS.cloud_cheap,
     VISION |-> MODELS.cloud_flash, LONGCTX |-> MODELS.cloud_flash,
     PRIVATE |-> MODELS.local_primary]

\* what tier2_classify may return: the model of a category the classifier
\* names, or None (no category in the answer, or the request failed)
Tier2Results == {None} \cup {Some(CATEGORY_TO_MODEL[c]) : c \in DOMAIN CATEGORY_TO_MODEL}

OllamaPrefix == << "o", "l", "l", "a", "m", "a", "/" >>

\* apply_saturation_check, busy being what ollama_is_busy() answers
apply_saturation_check(m, s, busy) ==
    IF ~StartsWith(m, OllamaPrefix) THEN m
    ELSE IF s.privacy >= 7 THEN m
    ELSE IF busy THEN MODELS.cloud_cheap
    ELSE m

\* estimate_tokens: size is the size of the file, 0 when there is none
estimate_tokens(text, size) == (Len(text) \div CHARS_PER_TOKEN) + (size \div CHARS_PER_TOKEN)

\* ------------------------------------------------------------------------
\* polymarket_api.py: PolymarketClient.list_all_events, list_all_markets
\* ------------------------------------------------------------------------

\* Gamma max per request
DEFAULT_PAGE_SIZE == 100

\* safety cap on the pages of one query
MAX_PAGES == 20

\* the items the server sent for one request, <<offset, 1>> .. <<offset, n>>:
\* a page is the record of the offset it answers and of its length, and a
\* result list is the sequence of the pages it was extended with
Page(at, size) == [offset |-> at, size |-> size]

\* the single-page request list_events / list_markets sends and the length
\* of the list resp.json() gave for it
PageRequest(endpoint, limit, at, returned) ==
    [endpoint |-> endpoint, limit |-> limit, offset |-> at, returned |-> returned]

\* the break after extend, with the page length tested by <=
IsShortPageOrFull(size) == size <= DEFAULT_PAGE_SIZE

\* if len(page) < DEFAULT_PAGE_SIZE: break
IsShortPage(size) == size < DEFAULT_PAGE_SIZE

\* the result list after one iteration: `if not page: break` comes before
\* extend, so an empty page adds nothing
Extended(result, at, size) ==
    IF size = 0 THEN result ELSE Append(result, Page(at, size))

\* the loop goes on to another request after this iteration
GoesOn(iterations, size) ==
    size # 0 /\ ~IsShortPage(size) /\ iterations < MAX_PAGES

\* the number of items of a result list
RECURSIVE ItemCount(_)
ItemCount(result) ==
    IF result = << >> THEN 0 ELSE Head(result).size + ItemCount(Tail(result))

\* ------------------------------------------------------------------------
\* what a detector leaves of the collection it was handed
\* ------------------------------------------------------------------------

ThresholdOrZero(m) == IF IsNone(m.threshold) THEN 0 ELSE Val(m.threshold)

\* MarketsAfter were a detector to sort the list it is handed
MarketsSortedInPlace(ms) == SortAsc(ms, ThresholdOrZero)

\* the caller's list[Market] after find_threshold_arbs, find_timeline_arbs
\* or find_cross_event_arbs: the lists they append to and sort are their own
\* (groups.setdefault(key, []), dated = [], the two comprehensions), and
\* no statement assigns to a field of a Market
MarketsAfter(ms) == ms

\* the caller's events dict after scan_monotonicity, scan_range_sums or
\* scan_cross_date: they copy the fields they need into new entry dicts and
\* sort the lists of those entries
EventsAfter(evs) == evs

\* ------------------------------------------------------------------------
\* state
\* ------------------------------------------------------------------------

VARIABLES
    pc,             \* the call in progress, "done" (returned) or "raised"
    markets,        \* scan_arbs.py: the list[Market] handed to the detectors
    arbs,           \* scan_arbs.py: the list[ArbOpportunity]
    data,           \* scripts/scan_arbs.py: data["markets"] of the snapshot
    min_liquidity,  \* scripts/scan_arbs.py: args.min_liquidity
    events,         \* scripts/scan_arbs.py: the events dict, in insertion order
    ei,             \* scripts/scan_arbs.py: the event the scan loop is at
    all_findings,   \* scripts/scan_arbs.py: the findings collected so far
    raw_markets,    \* scan_arbs.py: the raw records main loaded
    stats,          \* scan_arbs.py: the counts main prints
    group_title,    \* extract_strike: its first argument
    question,       \* extract_strike: its second argument
    claim,          \* extract_strike: what the call gave
    prompt,         \* route.py: the prompt being routed
    file_size,      \* route.py: the size of the file given with it, 0 if none
    token_estimate, \* route.py: estimate_tokens(prompt, file_path)
    scores,         \* route.py: score_dimensions(prompt, token_estimate)
    model,          \* route.py: the model chosen so far
    confidence,     \* route.py: the confidence of tier 1, in hundredths
    calls,          \* the detector calls a caller has made on one collection
    offset,         \* polymarket_api.py: the offset of the next page request
    page_no,        \* polymarket_api.py: the iterations of range(MAX_PAGES) begun
    requests,       \* polymarket_api.py: the page requests sent, in order
    all_events,     \* polymarket_api.py: list_all_events' result list
    all_markets     \* polymarket_api.py: list_all_markets' result list

normVars == << raw_markets, stats >>

parserVars == << group_title, question, claim >>

routeVars == << prompt, file_size, token_estimate, scores, model, confidence >>

apiVars == << offset, page_no, requests, all_events, all_markets >>

restVars == << calls, apiVars >>

vars == << pc, markets, arbs, data, min_liquidity, events, ei, all_findings,
           raw_markets, stats, group_title, question, claim,
           prompt, file_size, token_estimate, scores, model, confidence,
           calls, offset, page_no, requests, all_events, all_markets >>

\* --min-liquidity default
DefaultMinLiquidity == 1000

\* every sequence over S of length 1..n
SeqsUpTo(S, n) == UNION {[1..k -> S] : k \in 1..n}

\* market_id of the i-th record of a snapshot
WithIds(ms) == [i \in 1..Len(ms) |-> [ms[i] EXCEPT !.market_id = i]]

\* the state of the pipeline that is not running
IdleA == markets = << >> /\ arbs = << >>

IdleB == data = << >> /\ min_liquidity = DefaultMinLiquidity /\ events = << >>
         /\ ei = 0 /\ all_findings = << >>

IdleNorm == raw_markets = << >> /\ stats = << >>

IdleParser == group_title = << >> /\ question = << >> /\ claim = << >>

IdleRoute == /\ prompt = << >> /\ file_size = 0 /\ token_estimate = 0
             /\ scores = << >> /\ model = << >> /\ confidence = 0

\* the programs that are not running
IdleReplay == calls = << >>

IdleApi == /\ offset = 0 /\ page_no = 0 /\ requests = << >>
           /\ all_events = << >> /\ all_markets = << >>

IdleRest == IdleNorm /\ IdleParser /\ IdleRoute /\ IdleReplay /\ IdleApi

\* ------------------------------------------------------------------------
\* deadlines, questions, labels and titles of the bounded inputs
\* ------------------------------------------------------------------------

Dec31Full == << "D", "e", "c", "e", "m", "b", "e", "r", " ", "3", "1", ",", " ", "2", "0", "2", "6" >>

Dec31Abbr == << "D", "e", "c", " ", "3", "1", ",", " ", "2", "0", "2", "6" >>

Dec31NoComma == << "D", "e", "c", " ", "3", "1", " ", "2", "0", "2", "6" >>

Jun30Full == << "J", "u", "n", "e", " ", "3", "0", ",", " ", "2", "0", "2", "6" >>

Jun30Abbr == << "J", "u", "n", " ", "3", "0", ",", " ", "2", "0", "2", "6" >>

Mar31Full == << "M", "a", "r", "c", "h", " ", "3", "1", ",", " ", "2", "0", "2", "6" >>

NoText == << >>

QReach == << "B", "T", "C", " ", "r", "e", "a", "c", "h" >>

QDip == << "B", "T", "C", " ", "d", "i", "p" >>

QAth == << "B", "T", "C", " ", "A", "l", "l", " ", "T", "i", "m", "e", " ", "H", "i", "g", "h" >>

QBtc == << "b", "t", "c" >>

QBtcReach80 == << "b", "t", "c", " ", "r", "e", "a", "c", "h", " ", "$", "8", "0" >>

LUp60 == << UpArrow, " ", "6", "0" >>

LUp70 == << UpArrow, " ", "7", "0" >>

LDown60 == << DownArrow, " ", "6", "0" >>

LDown70 == << DownArrow, " ", "7", "0" >>

L60 == << "6", "0" >>

L70 == << "7", "0" >>

L80 == << "8", "0" >>

LGt66 == << ">", "6", "6" >>

L60to62 == << "6", "0", "-", "6", "2" >>

L62to64 == << "6", "2", "-", "6", "4" >>

L64to66 == << "6", "4", "-", "6", "6" >>

\* ------------------------------------------------------------------------
\* the detectors, each called on its own
\* ------------------------------------------------------------------------

FindThresholdArbs ==
    /\ pc = "find_threshold_arbs"
    /\ arbs' = find_threshold_arbs(markets)
    /\ pc' = "done"
    /\ UNCHANGED << markets, data, min_liquidity, events, ei, all_findings >>
    /\ UNCHANGED << normVars, parserVars, routeVars, restVars >>

FindTimelineArbs ==
    /\ pc = "find_timeline_arbs"
    /\ arbs' = find_timeline_arbs(markets)
    /\ pc' = "done"
    /\ UNCHANGED << markets, data, min_liquidity, events, ei, all_findings >>
    /\ UNCHANGED << normVars, parserVars, routeVars, restVars >>

FindCrossEventArbs ==
    /\ pc = "find_cross_event_arbs"
    /\ arbs' = find_cross_event_arbs(markets)
    /\ pc' = "done"
    /\ UNCHANGED << markets, data, min_liquidity, events, ei, all_findings >>
    /\ UNCHANGED << normVars, parserVars, routeVars, restVars >>

\* a scanner's return: its findings, or the exception leaving the call
Finish(result) ==
    /\ pc' = IF result.raised THEN "raised" ELSE "done"
    /\ all_findings' = result.findings
    /\ UNCHANGED << markets, arbs, data, min_liquidity, events, ei >>
    /\ UNCHANGED << normVars, parserVars, routeVars, restVars >>

ScanMonotonicity ==
    /\ pc = "scan_monotonicity"
    /\ \E result \in {scan_monotonicity(events[1].markets, events[1].etitle, min_liquidity)} :
          Finish(result)

ScanRangeSums ==
    /\ pc = "scan_range_sums"
    /\ \E result \in {scan_range_sums(events[1].markets, events[1].etitle, min_liquidity)} :
          Finish(result)

ScanCrossDate ==
    /\ pc = "scan_cross_date"
    /\ \E result \in {scan_cross_date(events, min_liquidity)} : Finish(result)

\* main of scripts/scan_arbs.py: the grouping of the snapshot by event
MainGroupEvents ==
    /\ pc = "main"
    /\ events' = GroupByEvent(data)
    /\ ei' = 1
    /\ pc' = "scan"
    /\ UNCHANGED << markets, arbs, data, min_liquidity, all_findings >>
    /\ UNCHANGED << normVars, parserVars, routeVars, restVars >>

\* one pass of the scan loop: both scanners on the event, unless it has
\* fewer than two markets
MainScanEvent ==
    /\ pc = "scan" /\ ei <= Len(events)
    /\ IF Len(events[ei].markets) < 2
       THEN /\ all_findings' = all_findings /\ ei' = ei + 1 /\ pc' = "scan"
       ELSE \E mono \in {scan_monotonicity(events[ei].markets, events[ei].etitle,
                                            min_liquidity)},
               rng \in {scan_range_sums(events[ei].markets, events[ei].etitle,
                                        min_liquidity)} :
               IF mono.raised
               THEN /\ all_findings' = all_findings /\ ei' = ei /\ pc' = "raised"
               ELSE IF rng.raised
               THEN /\ all_findings' = all_findings \o mono.findings
                    /\ ei' = ei /\ pc' = "raised"
               ELSE /\ all_findings' = all_findings \o mono.findings \o rng.findings
                    /\ ei' = ei + 1 /\ pc' = "scan"
    /\ UNCHANGED << markets, arbs, data, min_liquidity, events >>
    /\ UNCHANGED << normVars, parserVars, routeVars, restVars >>

\* after the loop: the cross-date scan over all the events
MainScanCrossDate ==
    /\ pc = "scan" /\ ei > Len(events)
    /\ \E cross \in {scan_cross_date(events, min_liquidity)} :
          /\ all_findings' = all_findings \o cross.findings
          /\ pc' = IF cross.raised THEN "raised" ELSE "sort"
    /\ UNCHANGED << markets, arbs, data, min_liquidity, events, ei >>
    /\ UNCHANGED << normVars, parserVars, routeVars, restVars >>

MainSortFindings ==
    /\ pc = "sort"
    /\ all_findings' = RankFindings(all_findings)
    /\ pc' = "done"
    /\ UNCHANGED << markets, arbs, data, min_liquidity, events, ei >>
    /\ UNCHANGED << normVars, parserVars, routeVars, restVars >>

\* main of scan_arbs.py: the three detectors over the parsed markets
MainFindArbs ==
    /\ pc = "find_arbs"
    /\ arbs' = find_threshold_arbs(markets) \o find_timeline_arbs(markets)
                  \o find_cross_event_arbs(markets)
    /\ pc' = "generate_report"
    /\ UNCHANGED << markets, data, min_liquidity, events, ei, all_findings >>
    /\ UNCHANGED << normVars, parserVars, routeVars, restVars >>

GenerateReport ==
    /\ pc = "generate_report"
    /\ arbs' = RankArbs(arbs)
    /\ pc' = "done"
    /\ UNCHANGED << markets, data, min_liquidity, events, ei, all_findings >>
    /\ UNCHANGED << normVars, parserVars, routeVars, restVars >>

\* main of scan_arbs.py: every raw market through parse_market, the counts
\* printed, the parsed markets kept for the detectors
ParseMarkets ==
    /\ pc = "parse"
    /\ \E parsed \in {ParseAll(raw_markets)} :
          /\ markets' = parsed
          /\ stats' = PrintedCounts(raw_markets, parsed)
    /\ pc' = "find_arbs"
    /\ UNCHANGED << arbs, data, min_liquidity, events, ei, all_findings, raw_markets >>
    /\ UNCHANGED << parserVars, routeVars, restVars >>

\* extract_strike called on a label and a question: its result, or the
\* exception leaving the call
ExtractStrike ==
    /\ pc = "extract_strike"
    /\ \E result \in {extract_strike(group_title, question)} :
          /\ claim' = result
          /\ pc' = IF result.raised THEN "raised" ELSE "done"
    /\ UNCHANGED << markets, arbs, data, min_liquidity, events, ei, all_findings >>
    /\ UNCHANGED << normVars, group_title, question, routeVars, restVars >>

\* route: the token estimate, tier 0 and the scores; on a pattern match the
\* model goes to the saturation check, else tier 1 decides and a confidence
\* under 0.60 calls for the classifier
RouteTiers ==
    /\ pc = "route"
    /\ \E tokens \in {estimate_tokens(prompt, file_size)} :
       \E t0 \in {tier0_route(prompt, tokens)}, s \in {score_dimensions(prompt, tokens)} :
          /\ token_estimate' = tokens
          /\ scores' = s
          /\ IF ~IsNone(t0)
             THEN /\ model' = Val(t0) /\ confidence' = confidence
                  /\ pc' = "saturation"
             ELSE \E t1 \in {tier1_route(s)} :
                     /\ model' = t1[1] /\ confidence' = t1[2]
                     /\ pc' = IF t1[2] < 60 THEN "tier2" ELSE "saturation"
    /\ UNCHANGED << markets, arbs, data, min_liquidity, events, ei, all_findings >>
    /\ UNCHANGED << normVars, parserVars, prompt, file_size, restVars >>

\* tier2_classify answers: the model of a category, or None, which leaves
\* the model of tier 1
Tier2Classify ==
    /\ pc = "tier2"
    /\ \E t2 \in Tier2Results :
          model' = IF IsNone(t2) THEN model ELSE Val(t2)
    /\ pc' = "saturation"
    /\ UNCHANGED << markets, arbs, data, min_liquidity, events, ei, all_findings >>
    /\ UNCHANGED << normVars, parserVars, prompt, file_size, token_estimate, scores, confidence, restVars >>

\* apply_saturation_check with what ollama_is_busy() answers, and the return
\* of route
ApplySaturationCheck ==
    /\ pc = "saturation"
    /\ \E busy \in BOOLEAN : model' = apply_saturation_check(model, scores, busy)
    /\ pc' = "done"
    /\ UNCHANGED << markets, arbs, data, min_liquidity, events, ei, all_findings >>
    /\ UNCHANGED << normVars, parserVars, prompt, file_size, token_estimate, scores, confidence, restVars >>

\* ------------------------------------------------------------------------
\* a caller that runs detectors one after another on one collection
\* ------------------------------------------------------------------------

\* the most detector calls of one caller
MaxCalls == 3

Call(detector, input, findings) ==
    [detector |-> detector, input |-> input, findings |-> findings]

\* a detector of scan_arbs.py called on the caller's list
CallOnMarkets(detector, found) ==
    /\ Len(calls) < MaxCalls
    /\ calls' = Append(calls, Call(detector, markets, found))
    /\ arbs' = found
    /\ markets' = MarketsAfter(markets)
    /\ UNCHANGED << pc, data, min_liquidity, events, ei, all_findings >>
    /\ UNCHANGED << normVars, parserVars, routeVars, apiVars >>

\* a scanner of scripts/scan_arbs.py called on the caller's events
CallOnEvents(detector, result) ==
    /\ Len(calls) < MaxCalls
    /\ pc' = IF result.raised THEN "raised" ELSE pc
    /\ calls' = IF result.raised THEN calls
                ELSE Append(calls, Call(detector, events, result.findings))
    /\ all_findings' = result.findings
    /\ events' = EventsAfter(events)
    /\ UNCHANGED << markets, arbs, data, min_liquidity, ei >>
    /\ UNCHANGED << normVars, parserVars, routeVars, apiVars >>

CallFindThresholdArbs ==
    /\ pc = "call_detectors"
    /\ \E found \in {find_threshold_arbs(markets)} :
          CallOnMarkets("find_threshold_arbs", found)

CallFindTimelineArbs ==
    /\ pc = "call_detectors"
    /\ \E found \in {find_timeline_arbs(markets)} :
          CallOnMarkets("find_timeline_arbs", found)

CallFindCrossEventArbs ==
    /\ pc = "call_detectors"
    /\ \E found \in {find_cross_event_arbs(markets)} :
          CallOnMarkets("find_cross_event_arbs", found)

CallScanMonotonicity ==
    /\ pc = "call_scanners"
    /\ \E result \in {scan_monotonicity(events[1].markets, events[1].etitle, min_liquidity)} :
          CallOnEvents("scan_monotonicity", result)

CallScanRangeSums ==
    /\ pc = "call_scanners"
    /\ \E result \in {scan_range_sums(events[1].markets, events[1].etitle, min_liquidity)} :
          CallOnEvents("scan_range_sums", result)

CallScanCrossDate ==
    /\ pc = "call_scanners"
    /\ \E result \in {scan_cross_date(events, min_liquidity)} :
          CallOnEvents("scan_cross_date", result)

\* ------------------------------------------------------------------------
\* pagination: one iteration of the loop of list_all_events and of
\* list_all_markets (time.sleep between two requests takes no part)
\* ------------------------------------------------------------------------

\* the requests of one query in which the server is let to send more items
\* than the limit asks for
MaxOverlong == 2

\* the lengths of the page a server may answer with: empty, short, full,
\* and longer than the limit
ServerPages(sent) ==
    {0, 40, DEFAULT_PAGE_SIZE} \cup (IF sent < MaxOverlong THEN {150} ELSE {})

ListAllEventsPage ==
    /\ pc = "list_all_events"
    /\ page_no < MAX_PAGES
    /\ \E size \in ServerPages(Len(requests)) :
          /\ page_no' = page_no + 1
          /\ requests' = Append(requests,
                               PageRequest("events", DEFAULT_PAGE_SIZE, offset, size))
          /\ all_events' = Extended(all_events, offset, size)
          /\ offset' = IF size # 0 /\ ~IsShortPage(size)
                        THEN offset + DEFAULT_PAGE_SIZE ELSE offset
          /\ pc' = IF GoesOn(page_no + 1, size) THEN pc ELSE "done"
    /\ UNCHANGED << markets, arbs, data, min_liquidity, events, ei, all_findings >>
    /\ UNCHANGED << normVars, parserVars, routeVars, calls, all_markets >>

ListAllMarketsPage ==
    /\ pc = "list_all_markets"
    /\ page_no < MAX_PAGES
    /\ \E size \in ServerPages(Len(requests)) :
          /\ page_no' = page_no + 1
          /\ requests' = Append(requests,
                               PageRequest("markets", DEFAULT_PAGE_SIZE, offset, size))
          /\ all_markets' = Extended(all_markets, offset, size)
          /\ offset' = IF size # 0 /\ ~IsShortPage(size)
                        THEN offset + DEFAULT_PAGE_SIZE ELSE offset
          /\ pc' = IF GoesOn(page_no + 1, size) THEN pc ELSE "done"
    /\ UNCHANGED << markets, arbs, data, min_liquidity, events, ei, all_findings >>
    /\ UNCHANGED << normVars, parserVars, routeVars, calls, all_events >>

\* ------------------------------------------------------------------------
\* threshold and dip monotonicity: find_threshold_arbs, scan_monotonicity
\* ------------------------------------------------------------------------

\* the longest market list and event of the bounded inputs
MaxMarkets == 3

MonoMarketChoices ==
    {Market(0, QReach, "E1", "reach", Some(t), Dec31Full, y) :
        t \in {100000, 120000}, y \in {400, 410, 550}}
    \cup {Market(0, QReach, "E1", "dip", Some(t), Dec31Full, y) :
        t \in {100000, 120000}, y \in {400, 550}}
    \cup {Market(0, QReach, "E1", "reach", Some(100000), Jun30Full, 550),
          Market(0, QReach, "E1", "reach", Some(120000), NoText, 400),
          Market(0, QReach, "E1", "reach", None, Dec31Full, 550),
          Market(0, QDip, "E1", "", None, Dec31Full, 400)}

MonoDictChoices ==
    {MarketDict(0, Some(l), Some(QBtc), Some(y), Some(5000), None) :
        l \in {LUp60, LUp70}, y \in {400, 405, 410, 550}}
    \cup {MarketDict(0, Some(l), Some(QBtc), Some(y), Some(5000), None) :
        l \in {LDown60, LDown70}, y \in {400, 550}}
    \cup {MarketDict(0, None, Some(QBtcReach80), Some(400), Some(5000), None),
          MarketDict(0, Some(L60), Some(QBtc), None, Some(5000), None),
          MarketDict(0, Some(L70), Some(QBtc), Some(550), Some(500), None),
          MarketDict(0, Some(L60to62), Some(QBtc), Some(550), None, None)}

TitleE1 == << "E", "1" >>

InitMono ==
    \/ /\ pc = "find_threshold_arbs"
       /\ markets \in {WithIds(ms) : ms \in SeqsUpTo(MonoMarketChoices, MaxMarkets)}
       /\ arbs = << >>
       /\ IdleB
       /\ IdleRest
    \/ /\ pc = "scan_monotonicity"
       /\ events \in {<< Event(1, Some(TitleE1), WithIds(ms)) >> :
                         ms \in SeqsUpTo(MonoDictChoices, MaxMarkets)}
       /\ data = << >> /\ min_liquidity = DefaultMinLiquidity
       /\ ei = 0 /\ all_findings = << >>
       /\ IdleA
       /\ IdleRest

NextMono == FindThresholdArbs \/ ScanMonotonicity

SpecMono == InitMono /\ [][NextMono]_vars

\* ---- properties of the monotonicity detectors ----

YesPrice(m) == m.yes_price

YesOdds(e) == e.yes_odds

\* the positions i of a cohort whose member i is priced strictly below member i+1
Inverted(cohort, Price(_)) ==
    {i \in 1..(Len(cohort) - 1) : FLt(Price(cohort[i]), Price(cohort[i + 1]))}

\* the arbs of one type that name the pair (a, b)
ArbsOf(arb_type, a, b) ==
    {k \in 1..Len(arbs) :
        arbs[k].arb_type = arb_type /\ arbs[k].market_a = a /\ arbs[k].market_b = b}

ArbsOfType(arb_type) == {k \in 1..Len(arbs) : arbs[k].arb_type = arb_type}

\* the monotonicity findings of one subtype that name the pair (a, b)
FindingsOf(subtype, a, b) ==
    {k \in 1..Len(all_findings) :
        /\ all_findings[k].type = "monotonicity_violation"
        /\ all_findings[k].subtype = subtype
        /\ all_findings[k].market_a = a /\ all_findings[k].market_b = b}

FindingsOfSubtype(subtype) ==
    {k \in 1..Len(all_findings) :
        all_findings[k].type = "monotonicity_violation" /\ all_findings[k].subtype = subtype}

\* the sorted cohorts of one direction that find_threshold_arbs walks
Cohorts(direction) ==
    {SortedGroup(markets, ThresholdKey(markets[i])) :
        i \in {j \in 1..Len(markets) : Truthy(markets[j]) /\ markets[j].direction = direction}}

\* the cohorts find_threshold_arbs walked answer the adjacency rule
ArbsFollow(direction, arb_type) ==
    /\ \A c \in Cohorts(direction) : \A i \in 1..(Len(c) - 1) :
          Cardinality(ArbsOf(arb_type, c[i], c[i + 1]))
              = IF i \in Inverted(c, YesPrice) THEN 1 ELSE 0
    /\ Cardinality(ArbsOfType(arb_type))
          = Cardinality(UNION {{<< c, i >> : i \in Inverted(c, YesPrice)} :
                                  c \in Cohorts(direction)})

\* the cohort scan_monotonicity walked answers the adjacency rule
FindingsFollow(cohort, subtype) ==
    /\ \A i \in 1..(Len(cohort) - 1) :
          Cardinality(FindingsOf(subtype, cohort[i], cohort[i + 1]))
              = IF i \in Inverted(cohort, YesOdds) THEN 1 ELSE 0
    /\ Cardinality(FindingsOfSubtype(subtype)) = Cardinality(Inverted(cohort, YesOdds))

ReturnedA == pc = "done" /\ markets # << >>

ReturnedB == pc = "done" /\ events # << >>

\* C1: in every reach/above cohort sorted ascending by threshold, the adjacent
\* pair (i, i+1) has an inversion finding exactly when member i is priced
\* strictly below member i+1, in find_threshold_arbs and in scan_monotonicity
\* alike; the findings are as many as such pairs, so a cohort whose prices
\* never rise has none.
C1_ReachInversions ==
    /\ ReturnedA => ArbsFollow("reach", "THRESHOLD_INVERSION")
    /\ ReturnedB => FindingsFollow(AboveSorted(events[1].markets, min_liquidity), "above")

\* a reach cohort of three with one rising and one non-rising adjacent pair
C1_Witness ==
    /\ ReturnedA
    /\ \E c \in Cohorts("reach") :
          /\ Len(c) = 3
          /\ Cardinality(Inverted(c, YesPrice)) = 1
          /\ Cardinality(ArbsOfType("THRESHOLD_INVERSION")) = 1

\* C2: in every dip/below cohort sorted descending by threshold, the adjacent
\* pair (easier, harder) has a dip inversion finding exactly when the easier
\* member is priced strictly below the harder one; equal prices and the
\* correct order give none.
C2_DipInversions ==
    /\ ReturnedA => ArbsFollow("dip", "DIP_INVERSION")
    /\ ReturnedB => FindingsFollow(BelowSorted(events[1].markets, min_liquidity), "below")

\* a below cohort of three with an inverted pair and an equally priced pair
C2_Witness ==
    /\ ReturnedB
    /\ LET c == BelowSorted(events[1].markets, min_liquidity)
       IN  /\ Len(c) = 3
           /\ c[1].strike > c[3].strike
           /\ \E i, j \in 1..2 : /\ FLt(c[i].yes_odds, c[i + 1].yes_odds)
                                 /\ FEq(c[j].yes_odds, c[j + 1].yes_odds)
           /\ Cardinality(FindingsOfSubtype("below")) = 1

\* the gap between the prices of a pair, in thousandths: 10 to the percentage point
GapMilli(easier, harder) == harder[1] - easier[1]

\* a grade that follows the gap: HIGH above 2 points, MEDIUM above 0.5 up to 2
GradedBy(grade, gap) ==
    /\ grade = "HIGH" <=> gap > 20
    /\ grade = "MEDIUM" <=> (gap > 5 /\ gap <= 20)

IsInversion(arb) == arb.arb_type \in {"THRESHOLD_INVERSION", "DIP_INVERSION"}

\* C5: every threshold or dip monotonicity finding is graded by its margin,
\* HIGH exactly when the margin exceeds 2 percentage points and MEDIUM exactly
\* when it exceeds 0.5 and is at most 2, in find_threshold_arbs and in
\* scan_monotonicity alike.
C5_GradedByMargin ==
    /\ ReturnedA =>
          \A k \in 1..Len(arbs) : IsInversion(arbs[k]) =>
              GradedBy(arbs[k].confidence,
                       GapMilli(arbs[k].market_a.yes_price, arbs[k].market_b.yes_price))
    /\ ReturnedB =>
          \A k \in 1..Len(all_findings) :
              all_findings[k].type = "monotonicity_violation" =>
                  GradedBy(all_findings[k].severity,
                           GapMilli(all_findings[k].market_a.yes_odds,
                                    all_findings[k].market_b.yes_odds))

\* find_threshold_arbs grades an inversion of one percentage point HIGH
C5_Witness ==
    /\ ReturnedA
    /\ \E k \in 1..Len(arbs) :
          /\ arbs[k].arb_type = "THRESHOLD_INVERSION"
          /\ GapMilli(arbs[k].market_a.yes_price, arbs[k].market_b.yes_price) = 10
          /\ arbs[k].confidence = "HIGH"

\* the two markets of the worked example: reach $100,000 at 0.40 and reach
\* $120,000 at 0.55, same deadline
IsExample(ms) ==
    /\ Len(ms) = 2
    /\ \A i \in 1..2 : ms[i].direction = "reach" /\ ms[i].deadline = Dec31Full
    /\ \E i, j \in 1..2 :
          /\ ms[i].threshold = Some(100000) /\ ms[i].yes_price = FromMilli(400)
          /\ ms[j].threshold = Some(120000) /\ ms[j].yes_price = FromMilli(550)

\* x is k thousandths, up to the rounding of binary64 arithmetic
NearMilli(x, k) ==
    /\ x[1] = k
    /\ x[2] <= Milli * Pow2(FracBits - 48) /\ -x[2] <= Milli * Pow2(FracBits - 48)

\* C6 as the specification words it: the worked example gives exactly one
\* threshold inversion whose margin is 15, the number itself.
C6_ExactMargin ==
    (ReturnedA /\ IsExample(markets)) =>
        /\ Len(arbs) = 1
        /\ arbs[1].arb_type = "THRESHOLD_INVERSION"
        /\ arbs[1].margin = << 15000, 0 >>

\* C6: the margin of a threshold or dip inversion is the harder member's price
\* minus the easier member's, times 100, as binary64 arithmetic gives it, and
\* is strictly positive; reach $100,000 at 0.40 with reach $120,000 at 0.55 on
\* one deadline gives exactly one threshold inversion, whose margin is 15 up
\* to the rounding of that arithmetic (15.000000000000002).
C6_InversionMargin ==
    ReturnedA =>
        /\ \A k \in 1..Len(arbs) : IsInversion(arbs[k]) =>
              LET easier == arbs[k].market_a
                  harder == arbs[k].market_b
              IN  /\ arbs[k].margin
                        = FMulInt(FSub(harder.yes_price, easier.yes_price), 100)
                  /\ arbs[k].margin[1]
                        = 100 * GapMilli(easier.yes_price, harder.yes_price)
                  /\ FGt(arbs[k].margin, FZero)
                  /\ arbs[k].arb_type = "THRESHOLD_INVERSION"
                        => Val(easier.threshold) <= Val(harder.threshold)
                  /\ arbs[k].arb_type = "DIP_INVERSION"
                        => Val(easier.threshold) >= Val(harder.threshold)
        /\ IsExample(markets) =>
              /\ Len(arbs) = 1
              /\ arbs[1].arb_type = "THRESHOLD_INVERSION"
              /\ NearMilli(arbs[1].margin, 15000)

\* the worked example, scanned
C6_Witness ==
    /\ ReturnedA /\ IsExample(markets)
    /\ Len(arbs) = 1 /\ arbs[1].margin[1] = 15000

\* ------------------------------------------------------------------------
\* range sums: scan_range_sums
\* ------------------------------------------------------------------------

\* the longest event of the range inputs
MaxBuckets == 3

RangeDictChoices ==
    {MarketDict(0, Some(l), Some(QBtc), Some(y), Some(5000), None) :
        l \in {L60to62, L62to64, LGt66, L70}, y \in {250, 500, 550, 560}}
    \cup {MarketDict(0, None, Some(QBtcReach80), Some(250), Some(5000), None),
          MarketDict(0, Some(L64to66), Some(QBtc), None, Some(5000), None),
          MarketDict(0, Some(L64to66), Some(QBtc), Some(560), Some(500), None)}

InitRange ==
    /\ pc = "scan_range_sums"
    /\ events \in {<< Event(1, Some(TitleE1), WithIds(ms)) >> :
                      ms \in SeqsUpTo(RangeDictChoices, MaxBuckets)}
    /\ data = << >> /\ min_liquidity = DefaultMinLiquidity
    /\ ei = 0 /\ all_findings = << >>
    /\ IdleA
    /\ IdleRest

NextRange == ScanRangeSums

SpecRange == InitRange /\ [][NextRange]_vars

\* the buckets scan_range_sums collects from an event: its eligible range
\* markets, then the overflow market if there is one
Collected(ms) ==
    LET ranges == SelectSeq(ms, LAMBDA m : IsRangeMarket(m, min_liquidity))
        over   == SelectSeq(ms, LAMBDA m : IsOverflow(m, min_liquidity))
    IN  IF over = << >> THEN ranges ELSE Append(ranges, over[Len(over)])

RangeCount(ms) == Len(SelectSeq(ms, LAMBDA m : IsRangeMarket(m, min_liquidity)))

\* the total of the yes prices of some markets, in thousandths
RECURSIVE SumMilli(_)
SumMilli(ms) == IF ms = << >> THEN 0 ELSE Val(Head(ms).yes)[1] + SumMilli(Tail(ms))

AbsInt(n) == IF n < 0 THEN -n ELSE n

\* C3: scan_range_sums returns exactly one range_sum_violation when it
\* collected at least two eligible range buckets and their total is more than
\* 0.05 away from 1.0, and none otherwise; the finding is HIGH when the total
\* is more than 0.10 away and MEDIUM otherwise, and its strategy is "sell all
\* YES" when the total is above 1.0 and "buy all YES" otherwise. A total of
\* exactly 1.05 gives no finding.
C3_RangeSumRule ==
    ReturnedB =>
        LET ms  == events[1].markets
            sum == SumMilli(Collected(ms))
            off == AbsInt(sum - 1000)
        IN  /\ Len(all_findings) = IF RangeCount(ms) >= 2 /\ off > 50 THEN 1 ELSE 0
            /\ \A k \in 1..Len(all_findings) :
                  /\ all_findings[k].type = "range_sum_violation"
                  /\ all_findings[k].severity = IF off > 100 THEN "HIGH" ELSE "MEDIUM"
                  /\ all_findings[k].action.strategy
                        = IF sum > 1000 THEN "sell all YES" ELSE "buy all YES"

\* two range buckets at 0.50 and 0.55, a total of exactly 1.05, with a finding
C3_Witness ==
    /\ ReturnedB
    /\ RangeCount(events[1].markets) = 2
    /\ SumMilli(Collected(events[1].markets)) = 1050
    /\ Len(all_findings) = 1

\* ------------------------------------------------------------------------
\* timelines: find_timeline_arbs
\* ------------------------------------------------------------------------

\* the longest market list of the timeline inputs
MaxTimeline == 3

TimelineMarketChoices ==
    {Market(0, QReach, "E1", "reach", Some(150000), d, y) :
        d \in {Mar31Full, Jun30Full, Jun30Abbr, Dec31NoComma}, y \in {300, 400}}
    \cup {Market(0, QReach, "E1", "reach", Some(150000), Jun30Abbr, 0),
          Market(0, QReach, "E2", "reach", Some(150000), Mar31Full, 400),
          Market(0, QReach, "E2", "reach", Some(150000), Jun30Full, 300),
          Market(0, QReach, "E1", "reach", Some(120000), Jun30Full, 300),
          Market(0, QDip, "E1", "dip", Some(150000), Jun30Full, 300),
          Market(0, QReach, "E1", "reach", Some(150000), NoText, 300),
          Market(0, QReach, "", "reach", Some(150000), Jun30Full, 300),
          Market(0, QReach, "E1", "", None, Mar31Full, 400)}

InitTimeline ==
    /\ pc = "find_timeline_arbs"
    /\ markets \in {WithIds(ms) : ms \in SeqsUpTo(TimelineMarketChoices, MaxTimeline)}
    /\ arbs = << >>
    /\ IdleB
    /\ IdleRest

NextTimeline == FindTimelineArbs

SpecTimeline == InitTimeline /\ [][NextTimeline]_vars

\* the deadline texts of the bounded inputs, each with the date it parses to
DeadlineTexts ==
    {Dec31Full, Dec31Abbr, Dec31NoComma, Jun30Full, Jun30Abbr, Mar31Full, NoText}

DateTable == [d \in DeadlineTexts |-> parse_deadline(d)]

Parses(m) == m.deadline # << >> /\ ~IsNone(DateTable[m.deadline])

DeadlineDate(m) == Val(DateTable[m.deadline])

\* the members of one event and one (direction, threshold) sub-group whose
\* deadline parses, sorted by deadline
TimelineCohort(title, direction, threshold) ==
    SortAsc(SelectSeq(markets, LAMBDA m :
                /\ m.event_title = title /\ m.direction = direction
                /\ m.threshold = Some(threshold)
                /\ Parses(m)),
            DeadlineDate)

TimelineCohorts ==
    {TimelineCohort(markets[i].event_title, markets[i].direction, Val(markets[i].threshold)) :
        i \in {j \in 1..Len(markets) : markets[j].event_title # "" /\ HasStrike(markets[j])}}

\* the adjacent pair (i, i+1) of a cohort is an inversion: different dates,
\* the earlier one priced strictly higher, and above zero
TimelineInverted(c, i) ==
    /\ DeadlineDate(c[i]) # DeadlineDate(c[i + 1])
    /\ FGt(c[i].yes_price, c[i + 1].yes_price)
    /\ FGt(c[i].yes_price, FZero)

\* C4: in find_timeline_arbs, within one event and one (direction, threshold)
\* sub-group, the members whose deadline parses are sorted by deadline; each
\* adjacent pair with different dates has a TIMELINE_INVERSION finding (HIGH,
\* margin (earlier - later) * 100) exactly when the earlier member is priced
\* strictly above the later one and above zero; pairs with the same date are
\* skipped.
C4_TimelineInversions ==
    ReturnedA =>
        /\ \A c \in TimelineCohorts : \A i \in 1..(Len(c) - 1) :
              /\ Cardinality(ArbsOf("TIMELINE_INVERSION", c[i], c[i + 1]))
                    = IF TimelineInverted(c, i) THEN 1 ELSE 0
              /\ \A k \in ArbsOf("TIMELINE_INVERSION", c[i], c[i + 1]) :
                    /\ arbs[k].confidence = "HIGH"
                    /\ arbs[k].margin
                          = FMulInt(FSub(c[i].yes_price, c[i + 1].yes_price), 100)
        /\ Cardinality(ArbsOfType("TIMELINE_INVERSION"))
              = Cardinality(UNION {{<< c, i >> : i \in {j \in 1..(Len(c) - 1) :
                                                          TimelineInverted(c, j)}} :
                                      c \in TimelineCohorts})
        /\ Len(arbs) = Cardinality(ArbsOfType("TIMELINE_INVERSION"))

\* a cohort of three given out of deadline order: an inverted pair, and a
\* pair on one date that is skipped though its prices fall
C4_Witness ==
    /\ ReturnedA
    /\ \E c \in TimelineCohorts :
          /\ Len(c) = 3
          /\ c[1].market_id > c[2].market_id
          /\ \E i, j \in 1..2 :
                /\ TimelineInverted(c, i)
                /\ DeadlineDate(c[j]) = DeadlineDate(c[j + 1])
                /\ c[j].deadline # c[j + 1].deadline
                /\ FGt(c[j].yes_price, c[j + 1].yes_price)
    /\ Len(arbs) = 1

\* ------------------------------------------------------------------------
\* all-time high against reach: find_cross_event_arbs
\* ------------------------------------------------------------------------

\* the longest market list of the cross-event inputs
MaxCrossEvent == 3

CrossEventMarketChoices ==
    {Market(0, QAth, "E1", "", None, d, y) :
        d \in {Dec31Full, Jun30Full, Dec31NoComma, NoText}, y \in {500, 530}}
    \cup {Market(0, QReach, "E2", "reach", Some(t), d, y) :
            t \in {104999, 105000, 115000, 115001}, d \in {Dec31Abbr, Jun30Full},
            y \in {480, 500}}
    \cup {Market(0, QReach, "E2", "reach", None, Dec31Full, 480),
          Market(0, QDip, "E2", "dip", Some(110000), Dec31Full, 480)}

InitCrossEvent ==
    /\ pc = "find_cross_event_arbs"
    /\ markets \in {WithIds(ms) : ms \in SeqsUpTo(CrossEventMarketChoices, MaxCrossEvent)}
    /\ arbs = << >>
    /\ IdleB
    /\ IdleRest

NextCrossEvent == FindCrossEventArbs

SpecCrossEvent == InitCrossEvent /\ [][NextCrossEvent]_vars

IsAth(m) == Contains(Lower(m.question), AllTimeHigh)

\* the pair (ath, reach) is one the claim names: both deadlines parse to one
\* date, the threshold lies in the band, the prices differ by more than 0.02
CrossEventDue(ath, reach) ==
    /\ Parses(ath) /\ Parses(reach)
    /\ DeadlineDate(ath) = DeadlineDate(reach)
    /\ ~IsNone(reach.threshold)
    /\ 105000 <= Val(reach.threshold) /\ Val(reach.threshold) <= 115000
    /\ AbsInt(GapMilli(ath.yes_price, reach.yes_price)) > 20

\* C8: find_cross_event_arbs reports a CROSS_EVENT finding (MEDIUM) for an
\* (all-time-high, reach) pair exactly when both deadlines parse to the same
\* date, the reach threshold lies in 105000..115000 inclusive, and the prices
\* differ by strictly more than 0.02; a difference of exactly 0.02, a
\* threshold outside the band, or a deadline that does not parse gives none.
C8_CrossEventRule ==
    ReturnedA =>
        /\ \A i, j \in 1..Len(markets) :
              IsAth(markets[i]) /\ markets[j].direction = "reach" =>
                  Cardinality(ArbsOf("CROSS_EVENT", markets[i], markets[j]))
                      = IF CrossEventDue(markets[i], markets[j]) THEN 1 ELSE 0
        /\ \A k \in 1..Len(arbs) :
              arbs[k].arb_type = "CROSS_EVENT" /\ arbs[k].confidence = "MEDIUM"

\* an all-time-high market at 0.50 and a reach market in the band at 0.48,
\* one deadline: a difference of exactly 0.02, reported
C8_Witness ==
    /\ ReturnedA
    /\ \E k \in 1..Len(arbs) :
          /\ arbs[k].arb_type = "CROSS_EVENT"
          /\ AbsInt(GapMilli(arbs[k].market_a.yes_price, arbs[k].market_b.yes_price)) = 20

\* ------------------------------------------------------------------------
\* one strike on several dates: scan_cross_date
\* ------------------------------------------------------------------------

\* the most markets the cross-date inputs spread over their events
MaxCrossDate == 3

TitleMar4 == << "a", "b", "o", "v", "e", " ", "o", "n", " ", "M", "a", "r", "c", "h", " ", "4" >>

TitleMar5 == << "a", "b", "o", "v", "e", " ", "o", "n", " ", "M", "a", "r", "c", "h", " ", "5" >>

TitleWeek == << "B", "T", "C", " ", "o", "n", " ", "M", "a", "r", "c", "h", " ", "4" >>

CrossDateChoices ==
    {MarketDict(0, Some(l), Some(QBtc), Some(y), Some(5000), Some(<< e, Some(t) >>)) :
        l \in {L70, L80}, y \in {350, 500, 700},
        e \in {1}, t \in {TitleMar4}}
    \cup {MarketDict(0, Some(l), Some(QBtc), Some(y), Some(5000), Some(<< e, Some(t) >>)) :
        l \in {L70, L80}, y \in {350, 500, 700},
        e \in {2}, t \in {TitleMar5}}
    \cup {MarketDict(0, Some(L70), Some(QBtc), Some(700), Some(5000), Some(<< 3, Some(TitleWeek) >>)),
          MarketDict(0, Some(L70), Some(QBtc), None, Some(5000), Some(<< 1, Some(TitleMar4) >>)),
          MarketDict(0, Some(L70), Some(QBtc), Some(700), Some(500), Some(<< 2, Some(TitleMar5) >>)),
          MarketDict(0, Some(L60to62), Some(QBtc), Some(700), Some(5000), Some(<< 2, Some(TitleMar5) >>))}

InitCrossDate ==
    /\ pc = "scan_cross_date"
    /\ events \in {GroupByEvent(WithIds(ms)) : ms \in SeqsUpTo(CrossDateChoices, MaxCrossDate)}
    /\ data = << >> /\ min_liquidity = DefaultMinLiquidity
    /\ ei = 0 /\ all_findings = << >>
    /\ IdleA
    /\ IdleRest

NextCrossDate == ScanCrossDate

SpecCrossDate == InitCrossDate /\ [][NextCrossDate]_vars

\* the findings that name the two entries, in either order
FindingsOn(x, y) ==
    {k \in 1..Len(all_findings) :
        {all_findings[k].market_a, all_findings[k].market_b} = {x, y}}

\* the pairs of positions of same-strike entries more than 0.15 apart
Divergent(entries) ==
    {p \in (1..Len(entries)) \X (1..Len(entries)) :
        /\ p[1] < p[2]
        /\ entries[p[1]].strike = entries[p[2]].strike
        /\ AbsInt(GapMilli(entries[p[1]].yes_odds, entries[p[2]].yes_odds)) > 150}

\* C7: scan_cross_date compares every unordered pair of eligible entries of
\* one strike and reports the pair, once, exactly when their yes prices
\* differ by strictly more than 0.15; a difference of 0.15 or less gives no
\* finding, and every finding has severity INFO.
C7_CrossDateRule ==
    pc = "done" =>
        LET entries == CrossEntries(events, min_liquidity)
        IN  /\ \A i, j \in 1..Len(entries) :
                  i < j /\ entries[i].strike = entries[j].strike =>
                      Cardinality(FindingsOn(entries[i], entries[j]))
                          = IF << i, j >> \in Divergent(entries) THEN 1 ELSE 0
            /\ Len(all_findings) = Cardinality(Divergent(entries))
            /\ \A k \in 1..Len(all_findings) :
                  /\ all_findings[k].type = "cross_date_divergence"
                  /\ all_findings[k].severity = "INFO"

\* one strike at 0.50 on one date and 0.35 on another, reported
C7_Witness ==
    /\ pc = "done"
    /\ \E k \in 1..Len(all_findings) :
          /\ all_findings[k].market_a.date # all_findings[k].market_b.date
          /\ AbsInt(GapMilli(all_findings[k].market_a.yes_odds,
                             all_findings[k].market_b.yes_odds)) = 150

\* ------------------------------------------------------------------------
\* ranking: main of scripts/scan_arbs.py, generate_report of scan_arbs.py
\* ------------------------------------------------------------------------

\* the most markets of a snapshot
MaxData == 4

\* the most parsed markets handed to the three detectors
MaxParsed == 3

QEth == << "e", "t", "h" >>

EventMar4 == Some(<< 1, Some(TitleMar4) >>)

EventMar5 == Some(<< 2, Some(TitleMar5) >>)

RankDictChoices ==
    {MarketDict(0, Some(LUp60), Some(QBtc), Some(400), Some(5000), EventMar4),
     MarketDict(0, Some(LUp60), Some(QBtc), Some(500), Some(5000), EventMar4),
     MarketDict(0, Some(LUp70), Some(QBtc), Some(550), Some(5000), EventMar4),
     MarketDict(0, Some(L60to62), Some(QBtc), Some(560), Some(5000), EventMar4),
     MarketDict(0, Some(L62to64), Some(QBtc), Some(560), Some(5000), EventMar4),
     MarketDict(0, Some(LUp60), Some(QBtc), Some(400), Some(5000), EventMar5),
     MarketDict(0, Some(LUp60), Some(QBtc), Some(550), Some(5000), EventMar5),
     MarketDict(0, Some(LUp70), Some(QBtc), Some(550), Some(5000), EventMar5),
     MarketDict(0, Some(LUp70), Some(QBtc), Some(410), Some(5000), EventMar5),
     MarketDict(0, Some(LUp60), Some(QBtc), Some(400), Some(5000), None),
     MarketDict(0, Some(LUp60), Some(QEth), Some(400), Some(5000), EventMar4)}

RankMarketChoices ==
    {Market(0, QAth, "E1", "", None, Dec31Full, 500),
     Market(0, QReach, "E1", "reach", Some(100000), Dec31Full, 400),
     Market(0, QReach, "E1", "reach", Some(110000), Dec31Full, 410),
     Market(0, QReach, "E1", "reach", Some(110000), Dec31Full, 550),
     Market(0, QReach, "E1", "reach", Some(110000), Jun30Full, 550),
     Market(0, QReach, "E1", "reach", Some(120000), Dec31Full, 400),
     Market(0, QReach, "E1", "reach", Some(120000), Dec31Full, 550)}

InitRank ==
    /\ pc = "main"
    /\ data \in {WithIds(ms) : ms \in SeqsUpTo(RankDictChoices, MaxData)}
    /\ min_liquidity = DefaultMinLiquidity
    /\ events = << >> /\ ei = 0 /\ all_findings = << >>
    /\ IdleA
    /\ IdleRest

NextRank ==
    \/ MainGroupEvents
    \/ MainScanEvent
    \/ MainScanCrossDate
    \/ MainSortFindings

SpecRank == InitRank /\ [][NextRank]_vars

\* main of scan_arbs.py over the parsed markets, up to the sorted report
InitReport ==
    /\ pc = "find_arbs"
    /\ markets \in {WithIds(ms) : ms \in SeqsUpTo(RankMarketChoices, MaxParsed)}
    /\ arbs = << >>
    /\ IdleB
    /\ IdleRest

NextReport ==
    \/ MainFindArbs
    \/ GenerateReport

SpecReport == InitReport /\ [][NextReport]_vars

\* the margin of a finding of scripts/scan_arbs.py: its spread, or the
\* distance of a range total from 1.0
MarginOf(f) == IF "spread" \in DOMAIN f THEN f.spread ELSE FAbs(f.overshoot)

ArbMargin(a) == a.margin

ArbSeverity(a) == a.confidence

FindingSeverity(f) == f.severity

\* a sequence runs by severity first, then by margin, largest first
RankedOrder(s, Severity(_), Margin(_)) ==
    \A i, j \in 1..Len(s) : i < j =>
        \/ SeverityOrder(Severity(s[i])) < SeverityOrder(Severity(s[j]))
        \/ /\ Severity(s[i]) = Severity(s[j])
           /\ ~FLt(Margin(s[i]), Margin(s[j]))

\* the findings of scripts/scan_arbs.py, once main has sorted them
RankedFindings ==
    (pc = "done" /\ data # << >>) => RankedOrder(all_findings, FindingSeverity, MarginOf)

\* the opportunities of scan_arbs.py, once generate_report has sorted them
RankedReport ==
    (pc = "done" /\ markets # << >>) => RankedOrder(arbs, ArbSeverity, ArbMargin)

\* C9: the ranked findings run by severity first (HIGH, MEDIUM, LOW, INFO)
\* and, among findings of one severity, by margin or spread descending,
\* whatever the type of the findings, range_sum_violation included.
C9_RankedBySeverityThenMargin == RankedFindings /\ RankedReport

\* a ranked list in which a range_sum_violation that is 0.12 off stands
\* behind a monotonicity violation of the same severity with a smaller margin
C9_Witness ==
    /\ pc = "done" /\ data # << >>
    /\ \E i, j \in 1..Len(all_findings) :
          /\ i < j
          /\ all_findings[i].type = "monotonicity_violation"
          /\ all_findings[j].type = "range_sum_violation"
          /\ all_findings[i].severity = all_findings[j].severity
          /\ FLt(MarginOf(all_findings[i]), MarginOf(all_findings[j]))

\* the findings taken in another order
Reordered(s, p) == [i \in 1..Len(s) |-> s[p[i]]]

\* C10: the ranked order does not depend on the order in which the findings
\* were appended: any two orders of the same findings rank to the same
\* sequence, ties on severity and spread included.
C10_OrderIndependent ==
    pc = "sort" =>
        \A p \in Permutations(1..Len(all_findings)) :
            RankFindings(Reordered(all_findings, p)) = RankFindings(all_findings)

\* two different findings that tie on severity and spread, about to be sorted
C10_Witness ==
    /\ pc = "sort"
    /\ \E i, j \in 1..Len(all_findings) :
          /\ i < j
          /\ all_findings[i] # all_findings[j]
          /\ all_findings[i].severity = all_findings[j].severity
          /\ SpreadOf(all_findings[i]) = SpreadOf(all_findings[j])

\* ------------------------------------------------------------------------
\* the normalizer: parse_market over a snapshot, then the detectors
\* ------------------------------------------------------------------------

\* the most raw markets of a snapshot
MaxRaw == 3

QReach100By == << "B", "T", "C", " ", "r", "e", "a", "c", "h", " ", "$", "1", "0", "0", ",", "0", "0", "0", " ", "b", "y", " ", "D", "e", "c", "e", "m", "b", "e", "r", " ", "3", "1", ",", " ", "2", "0", "2", "6" >>

QReach120kBy == << "B", "T", "C", " ", "r", "e", "a", "c", "h", " ", "$", "1", "2", "0", "k", " ", "b", "y", " ", "D", "e", "c", "e", "m", "b", "e", "r", " ", "3", "1", ",", " ", "2", "0", "2", "6" >>

QReach120By == << "B", "T", "C", " ", "r", "e", "a", "c", "h", " ", "$", "1", "2", "0", ",", "0", "0", "0", " ", "b", "y", " ", "D", "e", "c", "e", "m", "b", "e", "r", " ", "3", "1", ",", " ", "2", "0", "2", "6" >>

QHit150k == << "W", "i", "l", "l", " ", "B", "T", "C", " ", "h", "i", "t", " ", "$", "1", "5", "0", "k", "?" >>

QDip80By == << "B", "T", "C", " ", "d", "i", "p", " ", "t", "o", " ", "$", "8", "0", ",", "0", "0", "0", " ", "b", "y", " ", "J", "u", "n", "e", " ", "3", "0", ",", " ", "2", "0", "2", "6" >>

QReachComma == << "B", "T", "C", " ", "r", "e", "a", "c", "h", " ", "$", ",", " ", "b", "y", " ", "J", "u", "n", "e", " ", "3", "0", ",", " ", "2", "0", "2", "6" >>

QAthBy == << "B", "T", "C", " ", "A", "l", "l", " ", "T", "i", "m", "e", " ", "H", "i", "g", "h", " ", "b", "y", " ", "D", "e", "c", "e", "m", "b", "e", "r", " ", "3", "1", ",", " ", "2", "0", "2", "6" >>

\* '["0.40", "0.60"]': a JSON string of two prices
PricePair(yes, no) == Some(OutcomePrices(TRUE, TRUE, << Token(TRUE, yes), Token(TRUE, no) >>))

Liq5000 == Some(Token(TRUE, 5000000))

RawChoices ==
    {RawMarket(0, QReach100By, PricePair(400, 600), "E1", None, Liq5000),
     RawMarket(0, QReach120kBy, PricePair(550, 450), "E1", None, Liq5000),
     RawMarket(0, QReach120By, PricePair(410, 590), "E1", None, Liq5000),
     RawMarket(0, QReach100By, PricePair(0, 500), "E1", None, Liq5000),
     RawMarket(0, QReach120By, PricePair(1000, 500), "E1", None, Liq5000),
     RawMarket(0, QReach100By, PricePair(0, 1000), "E1", None, Liq5000),
     RawMarket(0, QReach100By, PricePair(1000, 0), "E1", None, Liq5000),
     RawMarket(0, QDip80By, PricePair(300, 700), "E1", None, None),
     RawMarket(0, QAthBy, PricePair(500, 500), "E1", None, Liq5000),
     RawMarket(0, QHit150k, PricePair(200, 800), "E1", None, Liq5000),
     RawMarket(0, QReachComma, PricePair(400, 600), "E1", None, Liq5000),
     RawMarket(0, QReach100By, None, "E1", None, Liq5000),
     RawMarket(0, QReach100By,
               Some(OutcomePrices(FALSE, TRUE, << Token(TRUE, 400) >>)), "E1", None, Liq5000),
     RawMarket(0, QReach100By,
               Some(OutcomePrices(FALSE, TRUE, << Token(TRUE, 400), Token(TRUE, 600) >>)),
               "E1", None, Liq5000),
     RawMarket(0, QReach100By, Some(OutcomePrices(TRUE, FALSE, << >>)), "E1", None, Liq5000),
     RawMarket(0, QReach100By,
               Some(OutcomePrices(TRUE, TRUE, << Token(FALSE, 0), Token(TRUE, 600) >>)),
               "E1", None, Liq5000),
     RawMarket(0, QReach100By, PricePair(400, 600), "E1", Some(Token(FALSE, 0)), Liq5000)}

RawIds(rs) == [i \in 1..Len(rs) |-> [rs[i] EXCEPT !.id = i]]

InitParse ==
    /\ pc = "parse"
    /\ raw_markets \in {RawIds(rs) : rs \in SeqsUpTo(RawChoices, MaxRaw)}
    /\ stats = << >>
    /\ IdleA /\ IdleB
    /\ IdleParser /\ IdleRoute /\ IdleReplay /\ IdleApi

NextParse ==
    \/ ParseMarkets
    \/ MainFindArbs
    \/ GenerateReport

SpecParse == InitParse /\ [][NextParse]_vars

\* the markets are parsed and the report is out
Reported == pc = "done" /\ raw_markets # << >>

\* the yes price is exactly 0 or exactly 1
Degenerate(yes_price) == FEq(yes_price, FZero) \/ FEq(yes_price, F_1_0)

ArbMembers(a) == {a.market_a, a.market_b}

\* C11: no finding has a member whose yes price is exactly 0 or exactly 1,
\* whatever its no price is: such a market reaches no detector
C11_NoDegenerateMember ==
    Reported =>
        \A k \in 1..Len(arbs) : \A m \in ArbMembers(arbs[k]) : ~Degenerate(m.yes_price)

\* the raw record carries two outcome prices that float() accepts
HasTwoPrices(raw) ==
    /\ ~PricesOf(raw).raised
    /\ Len(PricesOf(raw).value) >= 2
    /\ PricesOf(raw).value[1].ok /\ PricesOf(raw).value[2].ok

RawYes(raw) == FromMilli(PricesOf(raw).value[1].milli)

RawNo(raw) == FromMilli(PricesOf(raw).value[2].milli)

\* the records the normalizer is to exclude: fewer than two prices, or an
\* already resolved pair
Excluded(raw) == ~HasTwoPrices(raw) \/ Resolved(RawYes(raw), RawNo(raw))

\* the parsed markets that came from raw record i
MarketsFrom(i) == {k \in 1..Len(markets) : markets[k].market_id = raw_markets[i].id}

Parsed == pc # "parse" /\ raw_markets # << >>

\* C12: parse_market gives None for a record with fewer than two outcome
\* prices or a resolved pair, and for every other record a Market with
\* yes_price = prices[0] and the parsed direction, threshold and deadline
C12_Normalizer ==
    Parsed =>
        \A i \in 1..Len(raw_markets) :
            IF Excluded(raw_markets[i]) THEN MarketsFrom(i) = {}
            ELSE \E k \in MarketsFrom(i) :
                    /\ MarketsFrom(i) = {k}
                    /\ FEq(markets[k].yes_price, RawYes(raw_markets[i]))
                    /\ markets[k].direction = ParsedThreshold(raw_markets[i].question).direction
                    /\ markets[k].deadline = ParsedDeadline(raw_markets[i].question)

\* the discard count main surfaces, None when it surfaces none
SurfacedDiscards == IF "discarded" \in DOMAIN stats THEN Some(stats.discarded) ELSE None

\* C13: the number of normalized markets plus the surfaced discard count is
\* the number of input records
C13_DiscardAccounting ==
    Parsed =>
        /\ ~IsNone(SurfacedDiscards)
        /\ Len(markets) + Val(SurfacedDiscards) = Len(raw_markets)

\* ------------------------------------------------------------------------
\* the liquidity floor: main of scripts/scan_arbs.py with --min-liquidity
\* ------------------------------------------------------------------------

\* the most markets of a snapshot
MaxLiq == 3

\* the --min-liquidity values tried
MinLiquidityChoices == {0, DefaultMinLiquidity}

LiqDictChoices ==
    {MarketDict(0, Some(LUp60), Some(QBtc), Some(400), l, EventMar4) :
        l \in {None, Some(500), Some(1000), Some(5000)}}
    \cup {MarketDict(0, Some(LUp70), Some(QBtc), Some(550), l, EventMar4) :
        l \in {Some(500), Some(1000)}}
    \cup {MarketDict(0, Some(L60to62), Some(QBtc), Some(560), l, EventMar4) :
        l \in {Some(500), Some(1000)}}
    \cup {MarketDict(0, Some(L62to64), Some(QBtc), Some(560), l, EventMar4) :
        l \in {None, Some(1000)}}
    \cup {MarketDict(0, Some(LUp60), Some(QBtc), Some(600), l, EventMar5) :
        l \in {Some(500), Some(1000)}}

InitLiquidity ==
    /\ pc = "main"
    /\ data \in {WithIds(ms) : ms \in SeqsUpTo(LiqDictChoices, MaxLiq)}
    /\ min_liquidity \in MinLiquidityChoices
    /\ events = << >> /\ ei = 0 /\ all_findings = << >>
    /\ IdleA
    /\ IdleRest

NextLiquidity ==
    \/ MainGroupEvents
    \/ MainScanEvent
    \/ MainScanCrossDate
    \/ MainSortFindings

SpecLiquidity == InitLiquidity /\ [][NextLiquidity]_vars

\* the members of a finding: its two markets, or its buckets
FindingMembers(f) ==
    IF "buckets" \in DOMAIN f THEN {f.buckets[i] : i \in 1..Len(f.buckets)}
    ELSE {f.market_a, f.market_b}

\* the liquidity of a snapshot market, a missing or null one counting as 0
SnapshotLiquidity(id) == IF IsNone(data[id].liquidity) THEN 0 ELSE Val(data[id].liquidity)

\* the snapshot markets of one event with the given label, a price and
\* enough liquidity
Liquid(event, label) ==
    {i \in 1..Len(data) :
        /\ data[i].event = event /\ data[i].group_item_title = Some(label)
        /\ ~IsNone(data[i].yes)
        /\ SnapshotLiquidity(i) >= min_liquidity}

\* the findings on the pair of snapshot markets a and b
FindingsOnPair(type, a, b) ==
    {k \in 1..Len(all_findings) :
        /\ all_findings[k].type = type
        /\ "market_a" \in DOMAIN all_findings[k]
        /\ all_findings[k].market_a.market_id = a
        /\ all_findings[k].market_b.market_id = b}

\* the range buckets of the first event with a price and enough liquidity
LiquidBuckets == Liquid(EventMar4, L60to62) \cup Liquid(EventMar4, L62to64)

\* C14: no finding has a member or bucket whose liquidity is below
\* min_liquidity, a missing liquidity counting as 0; a market whose liquidity
\* is min_liquidity or more is kept: the only liquid up-60 and up-70 markets
\* of an event, priced 0.40 and 0.55, give their monotonicity finding, the
\* liquid up-60 markets of two dates priced 0.40 and 0.60 give their
\* cross-date finding, and two or more liquid range buckets at 0.56 each give
\* a range-sum finding over exactly those buckets
C14_LiquidityFloor ==
    /\ \A k \in 1..Len(all_findings) : \A m \in FindingMembers(all_findings[k]) :
          /\ m.liquidity = SnapshotLiquidity(m.market_id)
          /\ m.liquidity >= min_liquidity
    /\ pc = "done" =>
          \A a \in Liquid(EventMar4, LUp60), b \in Liquid(EventMar4, LUp70) :
              (Liquid(EventMar4, LUp60) = {a} /\ Liquid(EventMar4, LUp70) = {b})
                  => Cardinality(FindingsOnPair("monotonicity_violation", a, b)) = 1
    /\ pc = "done" =>
          \A a \in Liquid(EventMar4, LUp60), b \in Liquid(EventMar5, LUp60) :
              Cardinality(FindingsOnPair("cross_date_divergence", a, b)) = 1
    /\ pc = "done" /\ Cardinality(LiquidBuckets) >= 2 =>
          \E k \in 1..Len(all_findings) :
              /\ all_findings[k].type = "range_sum_violation"
              /\ {m.market_id : m \in FindingMembers(all_findings[k])} = LiquidBuckets

\* a finding between two markets whose liquidity is exactly min_liquidity,
\* in a snapshot that also holds a market below it
C14_Witness ==
    /\ pc = "done" /\ min_liquidity = DefaultMinLiquidity
    /\ \E i \in 1..Len(data) : SnapshotLiquidity(i) < min_liquidity
    /\ \E k \in 1..Len(all_findings) :
          \A m \in FindingMembers(all_findings[k]) : m.liquidity = min_liquidity

\* ------------------------------------------------------------------------
\* the question parser: extract_strike on a label and a question
\* ------------------------------------------------------------------------

LUp60k == << UpArrow, "6", "0", ",", "0", "0", "0" >>

LDown60Up == << DownArrow, " ", "6", "0", " ", UpArrow >>

LUpComma == << UpArrow, " ", "," >>

LComma == << "," >>

L70k == << "7", "0", ",", "0", "0", "0" >>

LPadded60 == << " ", "6", "0", " " >>

LWord == << "a", "b", "c" >>

L60k == << "6", "0", "k" >>

LGtOnly == << ">" >>

L60Dash == << "6", "0", "-" >>

LUpOnly == << UpArrow >>

L60kTo62k == << "6", "0", ",", "0", "0", "0", "-", "6", "2", ",", "0", "0", "0" >>

L60toComma == << "6", "0", "-", "," >>

QAbove80 == << "B", "T", "C", " ", "a", "b", "o", "v", "e", " ", "$", "8", "0" >>

QDipTo80 == << "B", "T", "C", " ", "d", "i", "p", " ", "t", "o", " ", "$", "8", "0" >>

QReach150k == << "r", "e", "a", "c", "h", " ", "$", "1", "5", "0", "k" >>

QReach150000 == << "r", "e", "a", "c", "h", " ", "$", "1", "5", "0", ",", "0", "0", "0" >>

QReach80Above90 == << "r", "e", "a", "c", "h", " ", "$", "8", "0", " ", "o", "r", " ", "a", "b", "o", "v", "e", " ", "$", "9", "0" >>

QDip70Reach80 == << "d", "i", "p", " ", "t", "o", " ", "$", "7", "0", " ", "o", "r", " ", "r", "e", "a", "c", "h", " ", "$", "8", "0" >>

QBtcReachComma == << "b", "t", "c", " ", "r", "e", "a", "c", "h", " ", "$", "," >>

QUpperReach80 == << "B", "T", "C", " ", "R", "E", "A", "C", "H", " ", "$", "8", "0" >>

\* m.get("group_item_title"): None when the key is absent
LabelChoices ==
    {None} \cup {Some(l) : l \in
        {NoText, LUp60, LUp70, LDown60, LUp60k, LDown60Up, LUpComma, LComma, L60, L70k,
         LPadded60, LGt66, L60to62, L60kTo62k, L60toComma, LWord, L60k, LGtOnly, L60Dash,
         LUpOnly}}

QuestionChoices ==
    {None} \cup {Some(q) : q \in
        {NoText, QBtc, QAbove80, QBtcReach80, QDipTo80, QReach150k, QReach150000,
         QReach80Above90, QDip70Reach80, QBtcReachComma, QUpperReach80}}

InitStrike ==
    /\ pc = "extract_strike"
    /\ group_title \in LabelChoices
    /\ question \in QuestionChoices
    /\ claim = << >>
    /\ IdleA /\ IdleB /\ IdleNorm /\ IdleRoute /\ IdleReplay /\ IdleApi

NextStrike == ExtractStrike

SpecStrike == InitStrike /\ [][NextStrike]_vars

\* extract_strike returned
Extracted == pc = "done" /\ claim # << >>

\* the label as the rules see it: stripped, empty when absent
LabelText == IF IsNone(group_title) THEN << >> ELSE Strip(Val(group_title))

QuestionText == IF IsNone(question) THEN << >> ELSE Lower(Val(question))

\* a numeric token: digits and thousands separators, one digit at least
IsNumber(tok) ==
    /\ tok # << >>
    /\ \A i \in 1..Len(tok) : IsDigit(tok[i]) \/ tok[i] = ","
    /\ \E i \in 1..Len(tok) : IsDigit(tok[i])

\* the numeric tokens that start at position i of s
NumbersAt(s, i) == {Slice(s, i, j) : j \in {k \in i..Len(s) : IsNumber(Slice(s, i, k))}}

\* the longest numeric token that starts at position i of s
NumberAt(s, i) ==
    CHOOSE tok \in NumbersAt(s, i) : \A other \in NumbersAt(s, i) : Len(other) <= Len(tok)

NumberValue(tok) == DigitsToInt(SelectSeq(tok, IsDigit))

\* position of the number after the glyph of an arrow label
AfterGlyph(s) == CHOOSE i \in 2..(Len(s) + 1) :
                    /\ \A j \in 2..(i - 1) : s[j] = " "
                    /\ (i > Len(s) \/ s[i] # " ")

\* rule 1: a directional glyph, then a number
IsGlyphLabel(s) ==
    s # << >> /\ s[1] \in {UpArrow, DownArrow} /\ NumbersAt(s, AfterGlyph(s)) # {}

\* rule 2: a bare number
IsBareNumber(s) == IsNumber(s)

\* rule 3: a number prefixed with >
IsGtLabel(s) == s # << >> /\ s[1] = ">" /\ NumbersAt(s, 2) # {}

\* rule 4: low-high
IsRangeLabel(s) ==
    /\ NumbersAt(s, 1) # {}
    /\ LET dash == Len(NumberAt(s, 1)) + 1
       IN  dash <= Len(s) /\ s[dash] = "-" /\ NumbersAt(s, dash + 1) # {}

RangeHigh(s) == NumberAt(s, Len(NumberAt(s, 1)) + 2)

\* the positions of q where keyword kw, white space, an optional $ and a
\* number follow one another
KeywordHits(q, kw) ==
    {i \in 1..Len(q) : \E j \in (i + Len(kw))..Len(q) :
        /\ MatchAt(q, i, kw)
        /\ \A k \in (i + Len(kw))..(j - 1) :
              q[k] = " " \/ (q[k] = "$" /\ k = j - 1)
        /\ NumbersAt(q, j) # {}}

\* the number that follows the first hit of kw in q
KeywordNumber(q, kw) ==
    LET i == CHOOSE h \in KeywordHits(q, kw) : \A o \in KeywordHits(q, kw) : h <= o
        j == CHOOSE k \in (i + Len(kw))..Len(q) :
                /\ NumbersAt(q, k) # {}
                /\ \A l \in (i + Len(kw))..(k - 1) : ~IsDigit(q[l]) /\ q[l] # ","
    IN  NumberValue(NumberAt(q, j))

KwDipTo == << "d", "i", "p", " ", "t", "o" >>

\* the claim the rules give, taken in their order
RuledClaim ==
    LET s == LabelText
        q == QuestionText
    IN  IF IsGlyphLabel(s)
        THEN << IF s[1] = UpArrow THEN "above" ELSE "below",
                Some(NumberValue(NumberAt(s, AfterGlyph(s)))) >>
        ELSE IF IsBareNumber(s) THEN << "above", Some(NumberValue(s)) >>
        ELSE IF IsGtLabel(s) THEN << "above", Some(NumberValue(NumberAt(s, 2))) >>
        ELSE IF IsRangeLabel(s)
        THEN << "range", << NumberValue(NumberAt(s, 1)), NumberValue(RangeHigh(s)) >> >>
        ELSE IF KeywordHits(q, KwAbove) # {} THEN << "above", Some(KeywordNumber(q, KwAbove)) >>
        ELSE IF KeywordHits(q, KwReach) # {} THEN << "above", Some(KeywordNumber(q, KwReach)) >>
        ELSE IF KeywordHits(q, KwDipTo) # {} THEN << "below", Some(KeywordNumber(q, KwDipTo)) >>
        ELSE << "unknown", None >>

\* C15: the rules apply in a fixed order and the first match wins: on the
\* label, glyph + number (above for the up arrow, below for the down arrow),
\* bare number (above), > number (above), low-high (range, both bounds);
\* only then the question, above, then reach (both above), then dip to
\* (below); unknown with no threshold when nothing matches
C15_RuleOrder ==
    Extracted => << claim.direction, claim.strike >> = RuledClaim

\* C16: the parser never fails: no label and no question make extract_strike
\* raise, and where no rule finds a number (a token of thousands separators
\* only is none) the claim is direction unknown with no threshold
C16_NeverFails ==
    /\ pc # "raised"
    /\ (Extracted /\ RuledClaim = << "unknown", None >>)
          => (claim.direction = "unknown" /\ IsNone(claim.strike))

\* the number a token stands for: thousands separators stripped, a trailing
\* k multiplying by 1,000
TokenValue(tok) ==
    IF tok # << >> /\ tok[Len(tok)] = "k"
    THEN 1000 * NumberValue(SubSeq(tok, 1, Len(tok) - 1))
    ELSE NumberValue(tok)

Tok150k == << "1", "5", "0", "k" >>

Tok150000 == << "1", "5", "0", ",", "0", "0", "0" >>

\* C17: 'reach $150k' yields threshold 150000, the value 'reach $150,000'
\* yields: a trailing k multiplies by 1,000
C17_ThousandsSuffix ==
    /\ (Extracted /\ IsNone(group_title) /\ question = Some(QReach150k))
          => claim.strike = Some(TokenValue(Tok150k))
    /\ (Extracted /\ IsNone(group_title) /\ question = Some(QReach150000))
          => claim.strike = Some(TokenValue(Tok150000))

MaxUnparsed == 3

\* markets as parse_market leaves them: with a claim, or with direction ""
\* and no threshold when the question gave none
UnparsedMarketChoices ==
    {Market(0, QReach, "E1", "reach", Some(100000), Dec31Full, 400),
     Market(0, QReach, "E1", "reach", Some(120000), Dec31Full, 550),
     Market(0, QReach, "E1", "reach", Some(120000), Dec31Full, 400),
     Market(0, QReach, "E1", "reach", Some(120000), Dec31Full, 395),
     Market(0, QReach, "E1", "reach", Some(100000), Jun30Full, 600),
     Market(0, QDip, "E1", "dip", Some(80000), Dec31Full, 300),
     Market(0, QDip, "E1", "dip", Some(70000), Dec31Full, 500),
     Market(0, QBtc, "E1", "", None, Dec31Full, 900),
     Market(0, QBtc, "E1", "", None, Dec31Full, 100),
     Market(0, QBtc, "E1", "", None, Jun30Full, 950),
     Market(0, QAth, "E1", "", None, Jun30Full, 450)}

UnparsedDictChoices ==
    {MarketDict(0, Some(LUp60), Some(QBtc), Some(400), Some(5000), EventMar4),
     MarketDict(0, Some(LUp70), Some(QBtc), Some(550), Some(5000), EventMar4),
     MarketDict(0, Some(L60to62), Some(QBtc), Some(560), Some(5000), EventMar4),
     MarketDict(0, Some(L62to64), Some(QBtc), Some(560), Some(5000), EventMar4),
     MarketDict(0, Some(LUp60), Some(QBtc), Some(600), Some(5000), EventMar5),
     MarketDict(0, Some(LWord), Some(QBtc), Some(900), Some(5000), EventMar4),
     MarketDict(0, Some(LWord), Some(QBtc), Some(100), Some(5000), EventMar4),
     MarketDict(0, None, Some(QBtc), Some(900), Some(5000), EventMar5),
     MarketDict(0, Some(L60k), Some(QBtc), Some(100), Some(5000), EventMar5)}

InitUnparsed ==
    \/ /\ pc = "find_threshold_arbs"
       /\ markets \in {WithIds(ms) : ms \in SeqsUpTo(UnparsedMarketChoices, MaxUnparsed)}
       /\ arbs = << >>
       /\ IdleB
       /\ IdleRest
    \/ /\ pc \in {"scan_monotonicity", "scan_range_sums", "scan_cross_date"}
       /\ events \in {GroupByEvent(WithIds(ms)) :
                         ms \in SeqsUpTo(UnparsedDictChoices, MaxUnparsed)}
       /\ data = << >> /\ min_liquidity = DefaultMinLiquidity
       /\ ei = 0 /\ all_findings = << >>
       /\ IdleA
       /\ IdleRest

NextUnparsed ==
    \/ FindThresholdArbs
    \/ ScanMonotonicity
    \/ ScanRangeSums
    \/ ScanCrossDate

SpecUnparsed == InitUnparsed /\ [][NextUnparsed]_vars

\* the market of scan_arbs.py carries no claim
NoClaim(m) == m.direction = "" \/ IsNone(m.threshold)

\* the grouped markets extract_strike gives direction unknown for
UnknownIds ==
    UNION {{events[e].markets[i].market_id : i \in
               {j \in 1..Len(events[e].markets) :
                   StrikeOf(events[e].markets[j]).direction = "unknown"}} :
           e \in 1..Len(events)}

CohortArbTypes ==
    {"THRESHOLD_INVERSION", "DIP_INVERSION", "FLAT_PRICING", "SPREAD_COMPRESSION",
     "TIMELINE_INVERSION"}

PPassword == << "W", "h", "a", "t", " ", "i", "s", " ", "m", "y", " ", "p", "a", "s", "s", "w", "o", "r", "d", "?" >>

PSeedPhrase == << "s", "t", "o", "r", "e", " ", "t", "h", "e", " ", "s", "e", "e", "d", " ", "p", "h", "r", "a", "s", "e" >>

PMnemonic == << "t", "h", "e", " ", "m", "n", "e", "m", "o", "n", "i", "c", " ", "i", "s", " ", "l", "o", "s", "t" >>

PApiKey == << "m", "y", " ", "A", "P", "I", "_", "k", "e", "y", " ", "i", "s", " ", "a", "b", "c" >>

PManySecrets == << "s", "s", "n", " ", "b", "a", "n", "k", " ", "p", "a", "s", "s", "w", "o", "r", "d", " ", "p", "r", "i", "v", "a", "t", "e", " ", "w", "a", "l", "l", "e", "t" >>

PPasswords == << "r", "e", "s", "e", "t", " ", "p", "a", "s", "s", "w", "o", "r", "d", "s" >>

PFixBug == << "f", "i", "x", " ", "t", "h", "e", " ", "b", "u", "g", " ", "i", "n", " ", "t", "h", "i", "s", " ", "c", "o", "d", "e" >>

PNews == << "w", "h", "a", "t", " ", "i", "s", " ", "t", "h", "e", " ", "l", "a", "t", "e", "s", "t", " ", "n", "e", "w", "s" >>

PHi == << "h", "i", "?" >>

PAnalyze == << "a", "n", "a", "l", "y", "z", "e", " ", "a", "n", "d", " ", "c", "o", "m", "p", "a", "r", "e", " ", "t", "h", "e", " ", "s", "t", "r", "a", "t", "e", "g", "y", " ", "a", "n", "d", " ", "d", "e", "s", "i", "g", "n" >>

PTwoMarkers == << "a", "n", "a", "l", "y", "z", "e", " ", "a", "n", "d", " ", "c", "o", "m", "p", "a", "r", "e", " ", "b", "i", "r", "d", "s" >>

PStory == << "t", "e", "l", "l", " ", "m", "e", " ", "a", " ", "s", "t", "o", "r", "y" >>

PromptChoices ==
    {PPassword, PSeedPhrase, PMnemonic, PApiKey, PManySecrets, PPasswords, PFixBug, PNews,
     PHi, PAnalyze, PTwoMarkers, PStory}

\* os.path.getsize(file_path), 0 standing for no file as well
FileSizeChoices == {0, 20000, 40000}

InitRoute ==
    /\ pc = "route"
    /\ prompt \in PromptChoices
    /\ file_size \in FileSizeChoices
    /\ token_estimate = 0 /\ scores = << >> /\ model = << >> /\ confidence = 0
    /\ IdleA /\ IdleB /\ IdleNorm /\ IdleParser /\ IdleReplay /\ IdleApi

NextRoute ==
    \/ RouteTiers
    \/ Tier2Classify
    \/ ApplySaturationCheck

SpecRoute == InitRoute /\ [][NextRoute]_vars

IsLocal(m) == StartsWith(m, OllamaPrefix)

\* C20: for every prompt that matches PRIVACY_PATTERNS, route returns a
\* local model, an id starting with 'ollama/', whatever ollama_is_busy()
\* reports and whatever the privacy score of the prompt is
C20_PrivacyStaysLocal ==
    (pc = "done" /\ prompt # << >> /\ PRIVACY_PATTERNS(prompt)) => IsLocal(model)

\* ------------------------------------------------------------------------
\* the secondary checks of find_threshold_arbs: flat pricing, compressed
\* spreads, and the cohorts they run on
\* ------------------------------------------------------------------------

\* the longest market list handed to find_threshold_arbs
MaxCohort == 3

\* reach markets 5,000 and 20,000 dollars apart at prices half a point and
\* a point apart, dip markets, and one reach market whose question writes
\* the same deadline with the abbreviated month
CohortMarketChoices ==
    {Market(0, QReach, "E1", "reach", Some(t), Dec31Full, y) :
        t \in {100000, 105000, 120000}, y \in {400, 405, 410}}
    \cup {Market(0, QDip, "E1", "dip", Some(t), Dec31Full, y) :
        t \in {70000, 90000}, y \in {400, 405}}
    \cup {Market(0, QReach, "E1", "reach", Some(120000), Dec31Abbr, 410)}

InitCohort ==
    /\ pc = "find_threshold_arbs"
    /\ markets \in {WithIds(ms) : ms \in SeqsUpTo(CohortMarketChoices, MaxCohort)}
    /\ arbs = << >>
    /\ IdleB
    /\ IdleRest

NextCohort == FindThresholdArbs

SpecCohort == InitCohort /\ [][NextCohort]_vars

\* ---- properties of the secondary checks ----

\* the adjacent positions of a sorted cohort whose two members have the
\* same price
EqualPriced(c) == {i \in 1..(Len(c) - 1) : FEq(c[i].yes_price, c[i + 1].yes_price)}

SameThreshold(a, b) == Val(a.threshold) = Val(b.threshold)

\* C21: in every reach cohort sorted ascending by threshold, an adjacent
\* pair with exactly equal yes prices has exactly one FLAT_PRICING finding,
\* of confidence LOW, when its thresholds differ, and no FLAT_PRICING
\* finding when its thresholds are equal.
C21_FlatPricing ==
    ReturnedA =>
        \A c \in Cohorts("reach") : \A i \in EqualPriced(c) :
            /\ Cardinality(ArbsOf("FLAT_PRICING", c[i], c[i + 1]))
                  = IF SameThreshold(c[i], c[i + 1]) THEN 0 ELSE 1
            /\ \A k \in ArbsOf("FLAT_PRICING", c[i], c[i + 1]) : arbs[k].confidence = "LOW"

\* a reach cohort with an equal-priced pair at one threshold followed by an
\* equal-priced pair at two thresholds, the second one reported
C21_Witness ==
    /\ ReturnedA
    /\ \E c \in Cohorts("reach") :
          /\ Len(c) = 3
          /\ EqualPriced(c) = {1, 2}
          /\ SameThreshold(c[1], c[2])
          /\ ~SameThreshold(c[2], c[3])
          /\ ArbsOf("FLAT_PRICING", c[2], c[3]) # {}


\* the spread of an adjacent pair in thousandths, as the two prices are
\* written: lower.yes_price - higher.yes_price
SpreadMilli(lower, higher) == lower.yes_price[1] - higher.yes_price[1]

ThresholdGap(lower, higher) == Val(higher.threshold) - Val(lower.threshold)

\* 0 < spread < 0.01 and threshold_gap >= 10000
Compressed(lower, higher) ==
    /\ 0 < SpreadMilli(lower, higher)
    /\ SpreadMilli(lower, higher) < 10
    /\ ThresholdGap(lower, higher) >= 10000

\* C22: in every reach cohort sorted ascending by threshold, an adjacent
\* pair has a SPREAD_COMPRESSION finding, of confidence MEDIUM and margin
\* spread * 100, exactly when 0 < lower.yes_price - higher.yes_price < 0.01
\* and higher.threshold - lower.threshold >= 10000; a spread of exactly
\* 0.01, a spread of 0 or a gap below 10000 gives none.
C22_SpreadCompression ==
    ReturnedA =>
        \A c \in Cohorts("reach") : \A i \in 1..(Len(c) - 1) :
            /\ Cardinality(ArbsOf("SPREAD_COMPRESSION", c[i], c[i + 1]))
                  = IF Compressed(c[i], c[i + 1]) THEN 1 ELSE 0
            /\ \A k \in ArbsOf("SPREAD_COMPRESSION", c[i], c[i + 1]) :
                  /\ arbs[k].confidence = "MEDIUM"
                  /\ arbs[k].margin
                        = FMulInt(FSub(c[i].yes_price, c[i + 1].yes_price), 100)


\* 0 < easier - harder < 0.01 in binary64, with the thresholds at least
\* 10,000 apart
DipCompressed(easier, harder) ==
    /\ FLt(FZero, FSub(easier.yes_price, harder.yes_price))
    /\ FLt(FSub(easier.yes_price, harder.yes_price), F_0_01)
    /\ Val(easier.threshold) - Val(harder.threshold) >= 10000

\* C23: in every dip cohort sorted descending by threshold, an adjacent pair
\* with exactly equal prices at different thresholds has a FLAT_PRICING
\* finding of confidence LOW, and an adjacent pair with
\* 0 < easier price - harder price < 1pp and a threshold gap of at least
\* 10,000 has a SPREAD_COMPRESSION finding of confidence MEDIUM.
C23_DipSecondaryChecks ==
    ReturnedA =>
        \A c \in Cohorts("dip") : \A i \in 1..(Len(c) - 1) :
            /\ (i \in EqualPriced(c) /\ ~SameThreshold(c[i], c[i + 1]))
                  => \E k \in ArbsOf("FLAT_PRICING", c[i], c[i + 1]) :
                        arbs[k].confidence = "LOW"
            /\ DipCompressed(c[i], c[i + 1])
                  => \E k \in ArbsOf("SPREAD_COMPRESSION", c[i], c[i + 1]) :
                        arbs[k].confidence = "MEDIUM"

\* ------------------------------------------------------------------------
\* range sums: the overflow bucket of scan_range_sums
\* ------------------------------------------------------------------------

\* the longest event of the overflow inputs
MaxOverflow == 4

\* range buckets, two ">" markets, an above market without the ">" prefix
\* and a range bucket below the liquidity floor; the prices keep every total
\* away from 0.95 and 1.05
OverflowDictChoices ==
    {MarketDict(0, Some(L60to62), Some(QBtc), Some(y), Some(5000), None) : y \in {500, 520}}
    \cup {MarketDict(0, Some(LGt66), Some(QBtc), Some(y), Some(5000), None) : y \in {40, 250}}
    \cup {MarketDict(0, Some(L62to64), Some(QBtc), Some(500), Some(5000), None),
          MarketDict(0, Some(L70), Some(QBtc), Some(250), Some(5000), None),
          MarketDict(0, Some(L64to66), Some(QBtc), Some(250), Some(500), None)}

InitOverflow ==
    /\ pc = "scan_range_sums"
    /\ events \in {<< Event(1, Some(TitleE1), WithIds(ms)) >> :
                      ms \in SeqsUpTo(OverflowDictChoices, MaxOverflow)}
    /\ data = << >> /\ min_liquidity = DefaultMinLiquidity
    /\ ei = 0 /\ all_findings = << >>
    /\ IdleA
    /\ IdleRest

NextOverflow == ScanRangeSums

SpecOverflow == InitOverflow /\ [][NextOverflow]_vars

\* ---- properties of the overflow bucket ----

\* an above claim whose label starts with ">"
GtLabelled(m) ==
    /\ ~IsNone(m.group_item_title)
    /\ Val(m.group_item_title) # << >>
    /\ Head(Val(m.group_item_title)) = ">"
    /\ StrikeOf(m).direction = "above"

\* the market ids of the eligible range buckets of an event, in input order
RangeIds(ms) ==
    LET ranges == SelectSeq(ms, LAMBDA m : IsRangeMarket(m, min_liquidity))
    IN  [i \in 1..Len(ranges) |-> ranges[i].market_id]

\* the market ids of the buckets of a finding that carry one direction
BucketIds(f, direction) ==
    LET bs == SelectSeq(f.buckets, LAMBDA b : b.direction = direction)
    IN  [i \in 1..Len(bs) |-> bs[i].market_id]

RECURSIVE BucketMilli(_)
BucketMilli(bs) == IF bs = << >> THEN 0 ELSE Head(bs).yes_odds[1] + BucketMilli(Tail(bs))

\* the eligible ">" markets of an event
Overflows(ms) == SelectSeq(ms, LAMBDA m : Eligible(m, min_liquidity) /\ GtLabelled(m))

\* the totals the event can have with its range buckets and at most one of
\* its ">" markets, in thousandths
OneOverflowTotals(ms) ==
    LET ranges == SelectSeq(ms, LAMBDA m : IsRangeMarket(m, min_liquidity))
        over   == Overflows(ms)
    IN  IF over = << >> THEN {SumMilli(ranges)}
        ELSE {SumMilli(ranges) + Val(over[i].yes)[1] : i \in 1..Len(over)}

\* C24: the range sum of an event is taken over all its eligible range
\* buckets plus at most one overflow bucket, an above claim whose label
\* starts with ">": whatever the number of ">" markets, at most one is in the
\* sum; an above claim without the ">" prefix is never in it; an event with
\* fewer than 2 range buckets has no finding even with an overflow bucket.
C24_OneOverflowBucket ==
    ReturnedB =>
        LET ms == events[1].markets
        IN  /\ RangeCount(ms) < 2 => all_findings = << >>
            /\ (all_findings = << >> /\ RangeCount(ms) >= 2)
                  => \E t \in OneOverflowTotals(ms) : AbsInt(t - 1000) <= 50
            /\ \A k \in 1..Len(all_findings) :
                  LET f == all_findings[k]
                  IN  /\ BucketIds(f, "range") = RangeIds(ms)
                      /\ Len(BucketIds(f, "overflow")) <= 1
                      /\ Len(f.buckets) = Len(RangeIds(ms)) + Len(BucketIds(f, "overflow"))
                      /\ \A i \in 1..Len(f.buckets) :
                            f.buckets[i].direction = "overflow"
                                => \E j \in 1..Len(ms) :
                                      /\ ms[j].market_id = f.buckets[i].market_id
                                      /\ GtLabelled(ms[j])
                      /\ f.total[1] = BucketMilli(f.buckets)
                      /\ f.total[1] \in OneOverflowTotals(ms)

\* two range buckets summing to 1.00 with two ">" markets at 0.04 each:
\* one of them is in the sum, 1.04, and there is no finding
C24_Witness ==
    /\ ReturnedB
    /\ LET ms == events[1].markets
       IN  /\ RangeCount(ms) = 2 /\ Len(Overflows(ms)) = 2
           /\ SumMilli(Overflows(ms)) = 80
           /\ SumMilli(SelectSeq(ms, LAMBDA m : IsRangeMarket(m, min_liquidity))) = 1000
           /\ all_findings = << >>

\* ------------------------------------------------------------------------
\* detectors called one after another on one collection
\* ------------------------------------------------------------------------

\* the longest collection of the repeated calls
MaxReplay == 2

\* markets out of threshold order, on two deadlines, and an all-time-high
\* market next to a reach market in its band
ReplayMarketChoices ==
    {Market(0, QReach, "E1", "reach", Some(120000), Dec31Full, 550),
     Market(0, QReach, "E1", "reach", Some(100000), Dec31Full, 400),
     Market(0, QReach, "E1", "reach", Some(110000), Jun30Full, 600),
     Market(0, QReach, "E1", "reach", Some(100000), Jun30Full, 600),
     Market(0, QDip, "E1", "dip", Some(70000), Dec31Full, 500),
     Market(0, QAth, "E1", "", None, Jun30Full, 450)}

\* above markets out of strike order on two dates, and two range buckets
ReplayDictChoices ==
    {MarketDict(0, Some(LUp70), Some(QBtc), Some(550), Some(5000), EventMar4),
     MarketDict(0, Some(LUp60), Some(QBtc), Some(400), Some(5000), EventMar4),
     MarketDict(0, Some(LUp60), Some(QBtc), Some(700), Some(5000), EventMar5),
     MarketDict(0, Some(L60to62), Some(QBtc), Some(560), Some(5000), EventMar4),
     MarketDict(0, Some(L62to64), Some(QBtc), Some(560), Some(5000), EventMar4)}

InitReplay ==
    \/ /\ pc = "call_detectors"
       /\ markets \in {WithIds(ms) : ms \in SeqsUpTo(ReplayMarketChoices, MaxReplay)}
       /\ arbs = << >>
       /\ IdleB
       /\ IdleRest
    \/ /\ pc = "call_scanners"
       /\ events \in {GroupByEvent(WithIds(ms)) :
                         ms \in SeqsUpTo(ReplayDictChoices, MaxReplay)}
       /\ data = << >> /\ min_liquidity = DefaultMinLiquidity
       /\ ei = 0 /\ all_findings = << >>
       /\ IdleA
       /\ IdleRest

\* the callers of every detector but find_timeline_arbs
NextReplay ==
    \/ CallFindThresholdArbs
    \/ CallFindCrossEventArbs
    \/ CallScanMonotonicity
    \/ CallScanRangeSums
    \/ CallScanCrossDate

SpecReplay == InitReplay /\ [][NextReplay]_vars

\* the callers of the three detectors of scan_arbs.py
NextReplayMarkets ==
    \/ CallFindThresholdArbs
    \/ CallFindTimelineArbs
    \/ CallFindCrossEventArbs

SpecReplayMarkets == InitReplay /\ [][NextReplayMarkets]_vars

\* the collection the caller holds now
Collection == IF pc = "call_detectors" THEN markets ELSE events

Members(c) == {c[i] : i \in 1..Len(c)}

\* some two members of a deadline-sorted cohort, adjacent or not, lie on
\* different dates with the earlier one priced strictly higher
SomeInversion(c) ==
    \E i, j \in 1..Len(c) :
        /\ i < j
        /\ DeadlineDate(c[i]) # DeadlineDate(c[j])
        /\ FGt(c[i].yes_price, c[j].yes_price)

\* C26: in find_timeline_arbs, whenever a same-event, same-(direction,
\* threshold) sub-group holds two members, adjacent in deadline order or
\* not, with different parsed deadlines and the earlier one priced strictly
\* above the later one, at least one TIMELINE_INVERSION finding names
\* members of that sub-group, also when several members share one date.
C26_TimelineComplete ==
    ReturnedA =>
        \A c \in TimelineCohorts :
            SomeInversion(c)
                => \E k \in ArbsOfType("TIMELINE_INVERSION") :
                      /\ arbs[k].market_a \in Members(c)
                      /\ arbs[k].market_b \in Members(c)

\* ------------------------------------------------------------------------
\* the thresholds of the two markets of an inversion
\* ------------------------------------------------------------------------

\* C27: every THRESHOLD_INVERSION and DIP_INVERSION finding, and every
\* monotonicity finding of scan_monotonicity, relates two markets with
\* strictly different thresholds, the member reported as easier having the
\* lower reach threshold (the higher dip threshold): two markets of one
\* cohort at one threshold with different prices give no inversion finding.
C27_DistinctThresholds ==
    /\ ReturnedA =>
          \A k \in 1..Len(arbs) :
              /\ arbs[k].arb_type = "THRESHOLD_INVERSION"
                    => Val(arbs[k].market_a.threshold) < Val(arbs[k].market_b.threshold)
              /\ arbs[k].arb_type = "DIP_INVERSION"
                    => Val(arbs[k].market_a.threshold) > Val(arbs[k].market_b.threshold)
    /\ ReturnedB =>
          \A k \in 1..Len(all_findings) :
              /\ all_findings[k].subtype = "above"
                    => EntryStrike(all_findings[k].market_a)
                          < EntryStrike(all_findings[k].market_b)
              /\ all_findings[k].subtype = "below"
                    => EntryStrike(all_findings[k].market_a)
                          > EntryStrike(all_findings[k].market_b)

\* ------------------------------------------------------------------------
\* the deadline of a cohort key
\* ------------------------------------------------------------------------

\* two markets of one direction whose deadlines parse to one calendar date
SameDateSameDirection(a, b) ==
    /\ Truthy(a) /\ Truthy(b)
    /\ a.direction = b.direction
    /\ Parses(a) /\ Parses(b)
    /\ DeadlineDate(a) = DeadlineDate(b)

\* C28: find_threshold_arbs puts two markets of one direction into the same
\* cohort whenever their deadlines denote the same calendar date, also when
\* the two questions write the date differently ("Dec 31, 2026" and
\* "December 31, 2026"), so that an inversion between the two is reported.
C28_CohortByDate ==
    ReturnedA =>
        \A i, j \in 1..Len(markets) :
            (i # j /\ SameDateSameDirection(markets[i], markets[j])) =>
                /\ \E c \in Cohorts(markets[i].direction) :
                      {markets[i], markets[j]} \subseteq Members(c)
                /\ (/\ Len(markets) = 2
                    /\ markets[i].direction = "reach"
                    /\ Val(markets[i].threshold) < Val(markets[j].threshold)
                    /\ FLt(markets[i].yes_price, markets[j].yes_price))
                      => ArbsOf("THRESHOLD_INVERSION", markets[i], markets[j]) # {}

\* ------------------------------------------------------------------------
\* one finding per adjacent pair
\* ------------------------------------------------------------------------

\* the arbs that name the two markets, in either order, whatever their type
ArbsOnPair(a, b) ==
    {k \in 1..Len(arbs) : {arbs[k].market_a, arbs[k].market_b} = {a, b}}

\* the arbs that name two members of one cohort
ArbsInCohort(c) ==
    {k \in 1..Len(arbs) : {arbs[k].market_a, arbs[k].market_b} \subseteq Members(c)}

\* C29: in find_threshold_arbs each adjacent pair of a sorted reach cohort
\* has at most one finding, the conditions of THRESHOLD_INVERSION,
\* FLAT_PRICING and SPREAD_COMPRESSION excluding one another: a cohort of n
\* markets has at most n - 1 findings, and no two markets are reported under
\* two finding types.
C29_OneFindingPerPair ==
    ReturnedA =>
        /\ \A c \in Cohorts("reach") :
              /\ \A i \in 1..(Len(c) - 1) :
                    Cardinality(ArbsOnPair(c[i], c[i + 1])) <= 1
              /\ Cardinality(ArbsInCohort(c)) <= Len(c) - 1
        /\ \A k, l \in 1..Len(arbs) :
              {arbs[k].market_a, arbs[k].market_b} = {arbs[l].market_a, arbs[l].market_b}
                  => arbs[k].arb_type = arbs[l].arb_type

\* a reach cohort of three with a finding on each adjacent pair, of two
\* different types
C29_Witness ==
    /\ ReturnedA
    /\ \E c \in Cohorts("reach") :
          /\ Len(c) = 3
          /\ Cardinality(ArbsInCohort(c)) = 2
          /\ ArbsOf("FLAT_PRICING", c[1], c[2]) # {}
          /\ ArbsOf("SPREAD_COMPRESSION", c[2], c[3]) # {}

\* ------------------------------------------------------------------------
\* pagination: list_all_events, list_all_markets
\* ------------------------------------------------------------------------

InitPages ==
    /\ pc \in {"list_all_events", "list_all_markets"}
    /\ IdleA /\ IdleB
    /\ IdleRest

NextPages == ListAllEventsPage \/ ListAllMarketsPage

SpecPages == InitPages /\ [][NextPages]_vars

\* the loop runs on: each iteration returns from its request
SpecPagesFair == SpecPages /\ WF_vars(NextPages)

\* the list the query builds
Result == IF all_events # << >> THEN all_events ELSE all_markets

\* the pages the server sent that hold items, in the order of the requests
FetchedPages ==
    LET sent == SelectSeq(requests, LAMBDA r : r.returned # 0)
    IN  [i \in 1..Len(sent) |-> Page(sent[i].offset, sent[i].returned)]

Returned30 == pc = "done" /\ requests # << >>

\* at most MAX_PAGES requests, at offsets 0, 100, 200, ..., none after a
\* page that was empty or shorter than DEFAULT_PAGE_SIZE; the result is the
\* fetched pages in offset order, at most 2000 items from a server that
\* honours the limit
PagesBounded ==
    /\ Len(requests) <= MAX_PAGES
    /\ \A i \in 1..Len(requests) :
          /\ requests[i].offset = (i - 1) * DEFAULT_PAGE_SIZE
          /\ requests[i].limit = DEFAULT_PAGE_SIZE
          /\ i < Len(requests) => requests[i].returned >= DEFAULT_PAGE_SIZE
    /\ pc # "done" =>
          \A i \in 1..Len(requests) : requests[i].returned >= DEFAULT_PAGE_SIZE
    /\ Result = FetchedPages
    /\ Returned30 =>
          \/ Len(requests) = MAX_PAGES
          \/ requests[Len(requests)].returned < DEFAULT_PAGE_SIZE
    /\ (\A i \in 1..Len(requests) : requests[i].returned <= DEFAULT_PAGE_SIZE)
          => ItemCount(Result) <= MAX_PAGES * DEFAULT_PAGE_SIZE

\* C30: pagination is bounded and terminates: whatever the server answers,
\* list_all_events and list_all_markets send at most MAX_PAGES (20) page
\* requests, at offsets 0, 100, 200, ..., send none after the first page that
\* is empty or shorter than DEFAULT_PAGE_SIZE (100), return the fetched pages
\* concatenated in offset order (at most 2000 items when the server honours
\* the limit), and the call returns.
C30_PaginationBounded == []PagesBounded /\ <>(pc = "done")

\* a query that used all twenty requests and returned 2000 items
C30_Witness ==
    /\ Returned30
    /\ Len(requests) = MAX_PAGES
    /\ ItemCount(Result) = MAX_PAGES * DEFAULT_PAGE_SIZE
    /\ requests[MAX_PAGES].offset = 1900

====
